---- MODULE Spec2Model ----
(***************************************************************************)
(* FaturaScan: the upload pipeline (processInvoiceUpload), the extraction  *)
(* flow's normalizer (extractInvoiceDataFlow), the validation flow         *)
(* (validateExtractedDataFlow: deterministic rules, AI verdict, merge) and *)
(* the persistence of an invoice (saveInvoice, its schema and its write).  *)
(*                                                                         *)
(* JavaScript values.  A value that may be undefined or null is wrapped:   *)
(* Undefined, Null or Val(x).  A built string (an error message, a         *)
(* summary) is the sequence of the fragments it was concatenated from, the *)
(* empty string being << >>; a vendor name is the sequence of its          *)
(* characters; a date string is either an ISO "YYYY-MM-DD" text, kept as   *)
(* its three numbers, or some other text.  Amounts are whole currency      *)
(* units.  A Date object is [y, m, d, t]: a calendar day (UTC, the server  *)
(* running in UTC) and the tick of the day, TicksPerDay ticks a day.       *)
(***************************************************************************)
EXTENDS Integers, Sequences, FiniteSets, TLC

\* ------------------------------------------------------------ bounds

\* Ticks of the clock in one day (tick 0 is midnight).
TicksPerDay == 2

\* The most ticks the clock advances between two reads of one synchronous
\* stretch of code.
MaxClockSkew == 1

\* The most calls of saveInvoice in one behaviour.
MaxSaves == 2

\* The most line items in one answer of the extraction prompt.
MaxItems == 2

\* The most invoices created by direct requests to the store in one
\* behaviour.
MaxDocuments == 1

\* The most calls that write a user's profile in one behaviour.
MaxProfileCalls == 2

\* The latest time of the clock that stamps profiles.
MaxTime == 2

\* The most edits of the review form in one behaviour.
MaxEdits == 2

\* The most changes of the signed-in user that the listener is told of in
\* one behaviour.
MaxAuthEvents == 2

\* ------------------------------------------------- JavaScript values

Undefined == [tag |-> "undefined"]

Null == [tag |-> "null"]

Val(x) == [tag |-> "val", v |-> x]

\* x === null || x === undefined  (also x == null)
IsNullish(x) == x.tag # "val"

\* new Date(text) of a text that is no date: an Invalid Date (time value NaN).
InvalidDate == [invalid |-> TRUE]

\* Truthiness of an optional string kept as a sequence (of fragments or of
\* characters): undefined, null and "" are falsy.
TruthyStr(x) == x.tag = "val" /\ x.v # << >>

\* Truthiness of an optional date text: undefined, null and "" are falsy.
TruthyDate(field) == field.tag = "val" /\ (field.v.iso \/ field.v.text # "")

\* Truthiness of an optional number: undefined, null and 0 are falsy.
TruthyNum(x) == x.tag = "val" /\ x.v # 0

\* Array.prototype.join: the fragments of the elements with sep between them.
RECURSIVE Join(_, _)
Join(parts, sep) ==
    IF parts = << >> THEN << >>
    ELSE IF Len(parts) = 1 THEN << Head(parts) >>
    ELSE << Head(parts), sep >> \o Join(Tail(parts), sep)

\* String.prototype.startsWith on character sequences.
StartsWith(s, prefix) ==
    /\ Len(s) >= Len(prefix)
    /\ SubSeq(s, 1, Len(prefix)) = prefix

\* ----------------------------------------------------------- the calendar

IsLeapYear(y) == (y % 4 = 0 /\ y % 100 # 0) \/ y % 400 = 0

DaysInMonth(y, m) ==
    IF m = 2 THEN (IF IsLeapYear(y) THEN 29 ELSE 28)
    ELSE IF m \in {4, 6, 9, 11} THEN 30 ELSE 31

RECURSIVE DaysBeforeMonth(_, _)
DaysBeforeMonth(y, m) ==
    IF m = 1 THEN 0 ELSE DaysBeforeMonth(y, m - 1) + DaysInMonth(y, m - 1)

\* Days from 0000-01-01 to the first day of year y (proleptic Gregorian).
DaysBeforeYear(y) ==
    365 * y + ((y + 3) \div 4) - ((y + 99) \div 100) + ((y + 399) \div 400)

\* The day number of a calendar day.  It is linear in d, so a day past the
\* end of its month (29 February of a common year) counts on into the next
\* month, as MakeDay does.
DayNumber(y, m, d) == DaysBeforeYear(y) + DaysBeforeMonth(y, m) + d - 1

\* Date.prototype.valueOf: the time value the relational operators compare.
\* Of a valid Date only.
TimeValue(date) == DayNumber(date.y, date.m, date.d) * TicksPerDay + date.t

\* a <= b on Date objects: false when either is an Invalid Date (NaN).
DateLeq(a, b) ==
    /\ a # InvalidDate
    /\ b # InvalidDate
    /\ TimeValue(a) <= TimeValue(b)

\* The clock one tick later.
NextTick(date) ==
    IF date.t + 1 < TicksPerDay THEN [date EXCEPT !.t = date.t + 1]
    ELSE IF date.d < DaysInMonth(date.y, date.m)
         THEN [date EXCEPT !.d = date.d + 1, !.t = 0]
    ELSE IF date.m < 12 THEN [date EXCEPT !.m = date.m + 1, !.d = 1, !.t = 0]
    ELSE [y |-> date.y + 1, m |-> 1, d |-> 1, t |-> 0]

RECURSIVE AddTicks(_, _)
AddTicks(date, k) == IF k = 0 THEN date ELSE AddTicks(NextTick(date), k - 1)

\* new Date(text): an ISO date-only text of a real calendar day is midnight
\* UTC of that day; anything else modelled here is an Invalid Date.
ParseDate(text) ==
    IF /\ text.iso
       /\ text.m \in 1..12
       /\ text.d \in 1..DaysInMonth(text.y, text.m)
    THEN [y |-> text.y, m |-> text.m, d |-> text.d, t |-> 0]
    ELSE InvalidDate

\* Date.prototype.setFullYear(year): the same month, day and time of day in
\* another year.
SetFullYear(date, year) == [date EXCEPT !.y = year]

\* ------------------------------------------------- the validation flow
\* validateExtractedDataFlow: the deterministic rules run before the prompt
\* is awaited, the merge with the prompt's output after it.

\* The upper bound of a valid amount.
AmountUpperBound == 1000000

\* A valid vendor name is longer than this.
MinVendorLength == 2

\* The date window reaches this many years back.
DateWindowYears == 2

\* twoYearsAgo: a second read of the clock (clockAgain), moved to the year of
\* currentDate less the window.
TwoYearsAgo(currentDate, clockAgain) ==
    SetFullYear(clockAgain, currentDate.y - DateWindowYears)

IsDateValid(inputDate, currentDate, twoYearsAgo) ==
    DateLeq(inputDate, currentDate) /\ DateLeq(twoYearsAgo, inputDate)

\* A variant that lets the upper bound itself through.
IsAmountValidInclusive(amount) == amount > 0 /\ amount <= AmountUpperBound

IsAmountValid(amount) == amount > 0 /\ amount < AmountUpperBound

IsVendorValid(vendor) == Len(vendor) > MinVendorLength

\* The three rules on the flow's input, the clock read as currentDate and
\* again as clockAgain.
DeterministicRules(input, currentDate, clockAgain) ==
    [isDateValid |-> IsDateValid(ParseDate(input.date), currentDate,
                                 TwoYearsAgo(currentDate, clockAgain)),
     isAmountValid |-> IsAmountValid(input.amount),
     isVendorValid |-> IsVendorValid(input.vendor)]

Suspicious(rules) ==
    ~rules.isDateValid \/ ~rules.isAmountValid \/ ~rules.isVendorValid

DateReason == "The date is invalid (either in the future or too far in the past)."

AmountReason == "The amount is invalid (either negative or unreasonably large)."

VendorReason == "The vendor name is invalid (too short)."

\* A variant that pushes the vendor's reason first.
ReasonsVendorFirst(rules) ==
    (IF rules.isVendorValid THEN << >> ELSE << VendorReason >>)
    \o (IF rules.isDateValid THEN << >> ELSE << DateReason >>)
    \o (IF rules.isAmountValid THEN << >> ELSE << AmountReason >>)

Reasons(rules) ==
    (IF rules.isDateValid THEN << >> ELSE << DateReason >>)
    \o (IF rules.isAmountValid THEN << >> ELSE << AmountReason >>)
    \o (IF rules.isVendorValid THEN << >> ELSE << VendorReason >>)

\* field !== undefined ? field : own   (a null field is kept)
PreferDefined(field, own) == IF field.tag = "undefined" THEN Val(own) ELSE field

\* field?.length ? field : own
PreferNonEmpty(field, own) ==
    IF field.tag = "val" /\ Len(field.v) > 0 THEN field.v ELSE own

\* output?.validationResult, truthy: an object.
HasValidationResult(output) ==
    output.tag = "val" /\ output.v.validationResult.tag = "val"

\* finalValidationResult.  The booleans stay wrapped: the prompt's null is
\* carried through.
FinalValidationResult(output, rules) ==
    IF HasValidationResult(output)
    THEN LET ai == output.v.validationResult.v
         IN  [isDateValid |-> PreferDefined(ai.isDateValid, rules.isDateValid),
              isAmountValid |-> PreferDefined(ai.isAmountValid, rules.isAmountValid),
              isVendorValid |-> PreferDefined(ai.isVendorValid, rules.isVendorValid),
              suspicious |-> PreferDefined(ai.suspicious, Suspicious(rules)),
              reasons |-> PreferNonEmpty(ai.reasons, Reasons(rules))]
    ELSE [isDateValid |-> Val(rules.isDateValid),
          isAmountValid |-> Val(rules.isAmountValid),
          isVendorValid |-> Val(rules.isVendorValid),
          suspicious |-> Val(Suspicious(rules)),
          reasons |-> Reasons(rules)]

SuspiciousSummaryPrefix == "The extracted data is suspicious. Reasons: "

ValidSummary == "The extracted data appears to be valid."

\* A variant that leaves the reasons out of the summary.
OwnSummaryWithoutReasons(final) ==
    IF final.suspicious = Val(TRUE)
    THEN << SuspiciousSummaryPrefix >>
    ELSE << ValidSummary >>

\* The summary computed from the merged verdict.
OwnSummary(final) ==
    IF final.suspicious = Val(TRUE)
    THEN << SuspiciousSummaryPrefix >> \o Join(final.reasons, ", ")
    ELSE << ValidSummary >>

\* finalSummary: output?.summary || (...)
FinalSummary(output, final) ==
    IF output.tag = "val" /\ TruthyStr(output.v.summary)
    THEN output.v.summary.v
    ELSE OwnSummary(final)

\* The flow's outputSchema on its return value: the four booleans are
\* booleans (the reasons and the summary are of the right type by
\* construction here).
ConformsToOutputSchema(final) ==
    /\ final.isDateValid.tag = "val"
    /\ final.isAmountValid.tag = "val"
    /\ final.isVendorValid.tag = "val"
    /\ final.suspicious.tag = "val"

OutputSchemaError == << "Schema validation failed. Expected boolean, received null" >>

\* What validateExtractedData returns, as parsed by the output schema.
ValidateExtractedDataOutput(final, summary) ==
    [validationResult |->
        [isDateValid |-> final.isDateValid.v,
         isAmountValid |-> final.isAmountValid.v,
         isVendorValid |-> final.isVendorValid.v,
         suspicious |-> final.suspicious.v,
         reasons |-> final.reasons],
     summary |-> summary]

\* ------------------------------------------------- the extraction flow
\* extractInvoiceDataFlow: the normalizer applied to the prompt's output.

\* output?.name
Field(output, name) == IF output.tag = "val" THEN output.v[name] ELSE Undefined

\* field || undefined, of a string
StringOrUndefined(field) == IF TruthyStr(field) THEN field ELSE Undefined

\* field || undefined, of a date text
DateOrUndefined(field) == IF TruthyDate(field) THEN field ELSE Undefined

\* A variant that tests the number's truthiness: field || undefined.
NumberOrUndefinedIfTruthy(field) == IF TruthyNum(field) THEN field ELSE Undefined

\* field === null || field === undefined ? undefined : Number(field)
NumberOrUndefined(field) == IF IsNullish(field) THEN Undefined ELSE Val(field.v)

\* A variant that tests the quantity's truthiness: quantity || 1.
QuantityOrOneIfFalsy(field) == IF TruthyNum(field) THEN field ELSE Val(1)

\* The quantity of an item: 1 when null or undefined.
QuantityOrOne(field) == IF IsNullish(field) THEN Val(1) ELSE Val(field.v)

NormalizeItem(item) ==
    [description |-> StringOrUndefined(item.description),
     quantity |-> QuantityOrOne(item.quantity),
     unitPrice |-> NumberOrUndefined(item.unitPrice),
     totalPrice |-> NumberOrUndefined(item.totalPrice)]

\* The filter's test: item.description || item.totalPrice
KeepItem(item) == TruthyStr(item.description) \/ TruthyNum(item.totalPrice)

\* A variant that builds the list from its end: the kept items come out in
\* reverse order.
RECURSIVE NormalizeItemListReversed(_)
NormalizeItemListReversed(list) ==
    IF list = << >> THEN << >>
    ELSE LET item == NormalizeItem(Head(list))
         IN  NormalizeItemListReversed(Tail(list))
             \o (IF KeepItem(item) THEN << item >> ELSE << >>)

RECURSIVE NormalizeItemList(_)
NormalizeItemList(list) ==
    IF list = << >> THEN << >>
    ELSE LET item == NormalizeItem(Head(list))
         IN  (IF KeepItem(item) THEN << item >> ELSE << >>)
             \o NormalizeItemList(Tail(list))

\* output?.items?.map(...).filter(...) || []
NormalizeItems(output) ==
    LET items == Field(output, "items")
    IN  IF items.tag = "val" THEN NormalizeItemList(items.v) ELSE << >>

\* What extractInvoiceData returns for the prompt's output: always an object.
ExtractInvoiceDataFlow(output) ==
    Val([date |-> DateOrUndefined(Field(output, "date")),
         amount |-> NumberOrUndefined(Field(output, "amount")),
         vendor |-> StringOrUndefined(Field(output, "vendor")),
         invoiceNumber |-> StringOrUndefined(Field(output, "invoiceNumber")),
         taxAmount |-> NumberOrUndefined(Field(output, "taxAmount")),
         items |-> NormalizeItems(output)])

\* ------------------------------------------------- processInvoiceUpload

\* The characters of "data:image/".
DataImagePrefix == << "d", "a", "t", "a", ":", "i", "m", "a", "g", "e", "/" >>

InvalidImageMessage == "Invalid image data URI"

NotAStringMessage == "Expected string, received null"

\* A variant that asks for a data URI of any kind.
ProcessInvoiceSchemaIssuesAnyData(photoDataUri) ==
    IF photoDataUri.tag # "val" THEN << NotAStringMessage >>
    ELSE IF StartsWith(photoDataUri.v, SubSeq(DataImagePrefix, 1, 5)) THEN << >>
    ELSE << InvalidImageMessage >>

\* processInvoiceSchema.safeParse({photoDataUri}): the messages of the issues,
\* none on success.  The form field is a string, or null when the form has
\* no such field.
ProcessInvoiceSchemaIssues(photoDataUri) ==
    IF photoDataUri.tag # "val" THEN << NotAStringMessage >>
    ELSE IF StartsWith(photoDataUri.v, DataImagePrefix) THEN << >>
    ELSE << InvalidImageMessage >>

ExtractionFailedError ==
    << "AI extraction failed completely. Please ensure the image is clear and try again." >>

MissingFieldsPrefix == "AI could not extract all required core fields. "

MissingFieldsAdvice == "Please ensure the receipt image is clear and properly oriented."

FallbackError == << "An unexpected error occurred during AI processing." >>

\* missingFields, of an extraction result that is an object.
MissingFields(data) ==
    (IF ~TruthyDate(data.date) THEN << "Date" >> ELSE << >>)
    \o (IF IsNullish(data.amount) THEN << "Amount" >> ELSE << >>)
    \o (IF ~TruthyStr(data.vendor) THEN << "Vendor" >> ELSE << >>)

\* A variant that writes each missing field with a trailing ", " and then
\* cuts the last two characters of the list, also when it ends in "Vendor".
MissingFieldsErrorSliced(missing) ==
    LET list == Join(missing, ", ")
    IN  << MissingFieldsPrefix >>
        \o (IF Len(missing) > 0
            THEN << "Missing: " >>
                 \o (IF missing[Len(missing)] = "Vendor"
                     THEN SubSeq(list, 1, Len(list) - 1) \o << "Vend" >>
                     ELSE list)
            ELSE << >>)

\* errorMsg of the missing-fields branch.
MissingFieldsError(missing) ==
    << MissingFieldsPrefix >>
    \o (IF Len(missing) > 0
        THEN << "Missing: " >> \o Join(missing, ", ") \o << ". " >>
             \o << MissingFieldsAdvice >>
        ELSE << >>)

\* A variant that does not look at the vendor.
IncompleteExtractionNoVendor(extracted) ==
    \/ extracted.tag # "val"
    \/ ~TruthyDate(extracted.v.date)
    \/ IsNullish(extracted.v.amount)

\* !extractedData || !extractedData.date || extractedData.amount == null
\*   || !extractedData.vendor
IncompleteExtraction(extracted) ==
    \/ extracted.tag # "val"
    \/ ~TruthyDate(extracted.v.date)
    \/ IsNullish(extracted.v.amount)
    \/ ~TruthyStr(extracted.v.vendor)

\* error.message || fallback
CaughtError(message) == IF message # << >> THEN message ELSE FallbackError

\* A value returned by processInvoiceUpload.
Outcome(extractedData, validationResult, error) ==
    [returned |-> TRUE, extractedData |-> extractedData,
     validationResult |-> validationResult, error |-> error]

\* A variant without the catch block: the failure leaves the function.
Uncaught(message) == [returned |-> FALSE, raised |-> message]

\* The catch block around the two AI calls: the failure becomes a value.
Caught(message) == Outcome(Null, Null, Val(CaughtError(message)))

\* validationInput, as built from the extraction result.
ValidationInput(data) ==
    [date |-> data.date, amount |-> data.amount, vendor |-> data.vendor]

\* The validation flow's inputSchema: a string, a number and a string.
ConformsToInputSchema(input) ==
    /\ input.date.tag = "val"
    /\ input.amount.tag = "val"
    /\ input.vendor.tag = "val"

InputSchemaError == << "Schema validation failed. Required" >>

\* ---------------------------------------------------------- saveInvoice
\* A value of a record handed to saveInvoice is undefined, null or a value
\* with its JavaScript type; a string here is one fragment.

Str(s) == Val([type |-> "string", s |-> s])

Num(n) == Val([type |-> "number", n |-> n])

Bool(b) == Val([type |-> "boolean", b |-> b])

Arr(elems) == Val([type |-> "array", elems |-> elems])

Obj(fields) == Val([type |-> "object", fields |-> fields])

\* A Timestamp object.
Timestamp(t) == Val([type |-> "object", timestamp |-> t])

\* The sentinel returned by serverTimestamp().
ServerTimestamp == Val([type |-> "object", sentinel |-> "serverTimestamp"])

\* The type zod reports for a value.
ParsedType(x) == IF x.tag = "val" THEN x.v.type ELSE x.tag

Issue(path, message) == [path |-> path, message |-> message]

\* zod's issue for a value that is not of the expected type.
InvalidType(expected, x, path) ==
    Issue(path,
          IF ParsedType(x) = "undefined" THEN << "Required" >>
          ELSE << "Expected ", expected, ", received ", ParsedType(x) >>)

\* z.string(), z.number(), z.boolean()
ZType(expected, x, path) ==
    IF ParsedType(x) = expected THEN << >>
    ELSE << InvalidType(expected, x, path) >>

\* schema.nullish()
ZNullish(x, issues) == IF IsNullish(x) THEN << >> ELSE issues

\* schema.optional()
ZOptional(x, issues) == IF x.tag = "undefined" THEN << >> ELSE issues

VendorRequiredMessage == "Vendor name is required"

\* z.string().min(1, "Vendor name is required")
ZVendor(x, path) ==
    IF ParsedType(x) # "string" THEN << InvalidType("string", x, path) >>
    ELSE IF x.v.s = "" THEN << Issue(path, << VendorRequiredMessage >>) >>
    ELSE << >>

Categories == {"gelir", "gider"}

CategoryOptions == "'gelir' | 'gider'"

\* z.enum(['gelir', 'gider'])
ZCategory(x, path) ==
    IF ParsedType(x) # "string"
    THEN << InvalidType(CategoryOptions, x, path) >>
    ELSE IF x.v.s \notin Categories
    THEN << Issue(path, << "Invalid enum value. Expected ", CategoryOptions,
                           ", received '", x.v.s, "'" >>) >>
    ELSE << >>

ZString(x, path) == ZType("string", x, path)

\* invoiceItemSchemaForSave
InvoiceItemSchemaForSave(x, path) ==
    IF ParsedType(x) # "object" \/ "fields" \notin DOMAIN x.v
    THEN << InvalidType("object", x, path) >>
    ELSE ZType("string", x.v.fields.description, path \o << "description" >>)
         \o ZType("number", x.v.fields.quantity, path \o << "quantity" >>)
         \o ZType("number", x.v.fields.unitPrice, path \o << "unitPrice" >>)
         \o ZType("number", x.v.fields.totalPrice, path \o << "totalPrice" >>)

\* The issues of the elements of items from the index `from` on, each under
\* its index in the array.
RECURSIVE ZItemElements(_, _, _)
ZItemElements(elems, from, path) ==
    IF from > Len(elems) THEN << >>
    ELSE InvoiceItemSchemaForSave(elems[from], path \o << ToString(from - 1) >>)
         \o ZItemElements(elems, from + 1, path)

\* z.array(invoiceItemSchemaForSave)
ZItems(x, path) ==
    IF ParsedType(x) # "array" THEN << InvalidType("array", x, path) >>
    ELSE ZItemElements(x.v.elems, 1, path)

\* The issues of the elements of an array of strings, likewise.
RECURSIVE ZStringElements(_, _, _)
ZStringElements(elems, from, path) ==
    IF from > Len(elems) THEN << >>
    ELSE ZString(elems[from], path \o << ToString(from - 1) >>)
         \o ZStringElements(elems, from + 1, path)

\* z.array(z.string())
ZStrings(x, path) ==
    IF ParsedType(x) # "array" THEN << InvalidType("array", x, path) >>
    ELSE ZStringElements(x.v.elems, 1, path)

\* saveInvoiceSchema.safeParse(invoiceData): validation.error.errors, none on
\* success.  Keys the schema does not name are stripped without an issue.
SaveInvoiceSchema(invoiceData) ==
    IF ParsedType(invoiceData) # "object"
    THEN << InvalidType("object", invoiceData, << >>) >>
    ELSE LET d == invoiceData.v.fields
         IN  ZType("string", d.date, << "date" >>)
             \o ZType("number", d.amount, << "amount" >>)
             \o ZVendor(d.vendor, << "vendor" >>)
             \o ZNullish(d.invoiceNumber,
                         ZType("string", d.invoiceNumber, << "invoiceNumber" >>))
             \o ZNullish(d.taxAmount,
                         ZType("number", d.taxAmount, << "taxAmount" >>))
             \o ZNullish(d.items,
                         ZItems(d.items, << "items" >>))
             \o ZCategory(d.category, << "category" >>)
             \o ZType("string", d.validationSummary, << "validationSummary" >>)
             \o ZType("boolean", d.isDateValid, << "isDateValid" >>)
             \o ZType("boolean", d.isAmountValid, << "isAmountValid" >>)
             \o ZType("boolean", d.isVendorValid, << "isVendorValid" >>)
             \o ZType("boolean", d.isSuspicious, << "isSuspicious" >>)
             \o ZStrings(d.suspiciousReasons, << "suspiciousReasons" >>)
             \o ZOptional(d.imageFileName,
                          ZType("string", d.imageFileName, << "imageFileName" >>))

\* Array.prototype.join of strings that are themselves built of fragments.
RECURSIVE JoinTexts(_, _)
JoinTexts(texts, sep) ==
    IF texts = << >> THEN << >>
    ELSE IF Len(texts) = 1 THEN Head(texts)
    ELSE Head(texts) \o << sep >> \o JoinTexts(Tail(texts), sep)

\* A variant that writes the message of an issue without its path.
IssueTextWithoutPath(e) == e.message

\* `${e.path.join('.')}: ${e.message}`
IssueText(e) == Join(e.path, ".") \o << ": " >> \o e.message

\* validation.error.errors.map(e => ...).join(', ')
SaveSchemaError(issues) ==
    JoinTexts([i \in 1..Len(issues) |-> IssueText(issues[i])], ", ")

MissingUserIdError == << "User ID is missing. Cannot save invoice. (SA-NoUIDParam)" >>

DbUnavailableError ==
    << "Firebase database service is not configured. Please contact support. (SA-DBObj)" >>

SaveFallbackError == << "Failed to save invoice to database." >>

\* error.message || "Failed to save invoice to database."
SaveCaughtError(message) == IF message # << >> THEN message ELSE SaveFallbackError

\* A variant that lets the empty string and null through.
NoUserIdOnlyUndefined(userId) == userId.tag = "undefined"

\* !userId of the userId parameter: undefined, null and "" are falsy.
NoUserId(userId) == userId.tag # "val" \/ userId.v.s = ""

\* A variant that looks at the store handle before the identity.
SaveRefusalHandleFirst(userId, handle, issues) ==
    IF handle.tag # "val" THEN Val(DbUnavailableError)
    ELSE IF NoUserId(userId) THEN Val(MissingUserIdError)
    ELSE IF issues # << >> THEN Val(SaveSchemaError(issues))
    ELSE Undefined

\* A variant that parses the record before it looks at the identity.
SaveRefusalSchemaFirst(userId, handle, issues) ==
    IF issues # << >> THEN Val(SaveSchemaError(issues))
    ELSE IF NoUserId(userId) THEN Val(MissingUserIdError)
    ELSE IF handle.tag # "val" THEN Val(DbUnavailableError)
    ELSE Undefined

\* The three early returns of saveInvoice, in their order: the error of the
\* first that applies, undefined when the call goes on to the write.
SaveRefusal(userId, handle, issues) ==
    IF NoUserId(userId) THEN Val(MissingUserIdError)
    ELSE IF handle.tag # "val" THEN Val(DbUnavailableError)
    ELSE IF issues # << >> THEN Val(SaveSchemaError(issues))
    ELSE Undefined

\* A value returned by saveInvoice.
SaveFailure(error) ==
    [success |-> FALSE, invoiceId |-> Undefined, error |-> Val(error)]

SaveSuccess(id) ==
    [success |-> TRUE, invoiceId |-> Val(id), error |-> Undefined]

\* A variant without the catch block: the failure leaves the function.
SaveUncaught(message) == [raised |-> message]

\* The catch block around addDoc: the failure becomes a value.
SaveCaught(message) == SaveFailure(SaveCaughtError(message))

\* A variant that takes the owner from the record when it names one.
NewInvoiceDocumentKeepingOwner(invoiceData, userId) ==
    [k \in DOMAIN invoiceData.v.fields \cup {"userId", "createdAt", "updatedAt"} |->
        IF k = "userId"
        THEN IF invoiceData.v.fields.userId.tag = "val"
             THEN invoiceData.v.fields.userId ELSE userId
        ELSE IF k \in {"createdAt", "updatedAt"} THEN ServerTimestamp
        ELSE invoiceData.v.fields[k]]

\* { ...invoiceData, userId: userId, createdAt: serverTimestamp(),
\*   updatedAt: serverTimestamp() }
NewInvoiceDocument(invoiceData, userId) ==
    [k \in DOMAIN invoiceData.v.fields \cup {"userId", "createdAt", "updatedAt"} |->
        IF k = "userId" THEN userId
        ELSE IF k \in {"createdAt", "updatedAt"} THEN ServerTimestamp
        ELSE invoiceData.v.fields[k]]

\* The store, committing a write, sets every serverTimestamp() sentinel to
\* the time of the commit.
ResolveServerTimestamps(data, time) ==
    [k \in DOMAIN data |->
        IF data[k].tag = "val" /\ "sentinel" \in DOMAIN data[k].v
        THEN Timestamp(time) ELSE data[k]]

\* A variant that writes over a document holding the same data instead of
\* creating one.
CommittedUpsert(collection, id, data, time) ==
    LET document == [id |-> id, createTime |-> time,
                     data |-> ResolveServerTimestamps(data, time)]
    IN  IF \E i \in 1..Len(collection) :
               \A k \in DOMAIN data \ {"createdAt", "updatedAt"} :
                  collection[i].data[k] = data[k]
        THEN collection
        ELSE Append(collection, document)

\* The collection after the store committed addDoc's write: one more
\* document, under the identifier addDoc generated.
Committed(collection, id, data, time) ==
    Append(collection, [id |-> id, createTime |-> time,
                        data |-> ResolveServerTimestamps(data, time)])

\* ------------------------------------------------------- firestore.rules
\* The access rules of the store.  request.auth is null or an object with
\* the caller's uid and token; a collection of profiles is a function from
\* the document key to undefined or the document's data.  A comparison with
\* a field that the data lacks is an error, and an error denies.

\* a == b of two fields of documents.
RulesEq(a, b) == a # Undefined /\ b # Undefined /\ a = b

\* function isAdmin(userId)
isAdmin(profiles, userId) ==
    /\ userId \in DOMAIN profiles
    /\ profiles[userId].tag = "val"
    /\ RulesEq(profiles[userId].v.role, Str("admin"))

\* request.auth != null
Authenticated(auth) == auth # Null

\* match /users/{userId}: allow read
AllowUsersRead(profiles, auth, userId) ==
    /\ Authenticated(auth)
    /\ (auth.v.uid = userId \/ isAdmin(profiles, auth.v.uid))

\* A variant that lets the creator choose the role.
AllowUsersCreateAnyRole(auth, userId, data) ==
    /\ Authenticated(auth)
    /\ auth.v.uid = userId
    /\ RulesEq(data.uid, Str(auth.v.uid))
    /\ RulesEq(data.email, Str(auth.v.token.email))
    /\ data.createdAt # Undefined

\* match /users/{userId}: allow create
AllowUsersCreate(auth, userId, data) ==
    /\ Authenticated(auth)
    /\ auth.v.uid = userId
    /\ RulesEq(data.uid, Str(auth.v.uid))
    /\ RulesEq(data.email, Str(auth.v.token.email))
    /\ RulesEq(data.role, Str("user"))
    /\ data.createdAt # Undefined

\* match /users/{userId}: allow update
AllowUsersUpdate(profiles, auth, userId, data, resource) ==
    /\ Authenticated(auth)
    /\ \/ /\ auth.v.uid = userId
          /\ RulesEq(data.role, resource.role)
          /\ RulesEq(data.uid, resource.uid)
          /\ RulesEq(data.email, resource.email)
          /\ RulesEq(data.createdAt, resource.createdAt)
       \/ isAdmin(profiles, auth.v.uid)

\* match /users/{userId}: no rule allows a delete.
AllowUsersDelete(profiles, auth, userId) == FALSE

\* A variant that lets an administrator create an invoice for anyone.
AllowInvoicesCreateOrAdmin(profiles, auth, data) ==
    /\ Authenticated(auth)
    /\ (RulesEq(data.userId, Str(auth.v.uid)) \/ isAdmin(profiles, auth.v.uid))

\* match /invoices/{invoiceId}: allow create
AllowInvoicesCreate(profiles, auth, data) ==
    /\ Authenticated(auth)
    /\ RulesEq(data.userId, Str(auth.v.uid))

\* match /invoices/{invoiceId}: allow get, and allow update, delete: the
\* same condition on the stored document.
AllowInvoicesOfOwnerOrAdmin(profiles, auth, resource) ==
    /\ Authenticated(auth)
    /\ (RulesEq(resource.userId, Str(auth.v.uid)) \/ isAdmin(profiles, auth.v.uid))

\* match /invoices/{invoiceId}: allow list, of a query that asks for the
\* documents of one userId or for all of them (undefined): the condition
\* must hold for every document the query could return.
AllowInvoicesList(profiles, auth, filter) ==
    /\ Authenticated(auth)
    /\ (filter = Val(auth.v.uid) \/ isAdmin(profiles, auth.v.uid))

\* --------------------------------------------------------------- state

VARIABLES
    pc,                 \* where the run of processInvoiceUpload stands
    photoDataUri,       \* the form field read by processInvoiceUpload
    extractionOutput,   \* what the extraction prompt answered
    extractedData,      \* processInvoiceUpload's extractedData
    flow,               \* the validation flow's locals before its await
    validationOutput,   \* what the validation prompt answered
    final,              \* the validation flow's merged verdict and summary
    result,             \* what processInvoiceUpload returned
    inFlight,           \* the AI calls awaited right now
    log,                \* the AI calls made and how each ended, in order
    db,                 \* the Firestore handle exported by lib/firebase
    saves,              \* the calls of saveInvoice, in the order they began
    invoices,           \* the documents of the invoices collection
    autoIds,            \* how many document identifiers were generated
    serverTime,         \* the clock of the store
    users,              \* the documents of the users collection, by key
    lastRequest,        \* the latest direct request to the store, as decided
    origin,             \* of each invoice or profile created by a request:
                        \* who created it, with which owner, role and time
    adminWrites,        \* the documents an administrator has written
    profileCalls,       \* the calls of ensureUserProfile and the sign-ups,
                        \* in the order they began
    authState,          \* AuthProvider's state, and whether it listens
    authCallbacks,      \* the runs of the onAuthStateChanged callback, in
                        \* the order they began
    form                \* the review form: its data, its loading flag, the
                        \* saves it has begun and those it awaits

uploadVars == << pc, photoDataUri, extractionOutput, extractedData, flow,
                 validationOutput, final, result, inFlight, log >>

saveVars == << db, saves, invoices, autoIds, serverTime >>

rulesVars == << users, lastRequest, origin, adminWrites >>

authVars == << authState, authCallbacks >>

clientVars == << profileCalls, authVars, form >>

vars == << uploadVars, saveVars, rulesVars, clientVars >>

\* What the upload pipeline leaves alone, and what saveInvoice does.
exceptUpload == << saveVars, rulesVars, clientVars >>

exceptSave == << uploadVars, rulesVars, clientVars >>

\* The users of the application; root's profile has the role admin from the
\* start.
Uids == {"alice", "bob", "root"}

EmailOf(uid) == IF uid = "alice" THEN "alice@example.com"
                ELSE IF uid = "bob" THEN "bob@example.com"
                ELSE "root@example.com"

\* request.auth of a signed-in user.
AuthOf(uid) == Val([uid |-> uid, token |-> [email |-> EmailOf(uid)]])

NewProfile(uid, role, createdAt) ==
    [uid |-> Str(uid), email |-> Str(EmailOf(uid)), displayName |-> Null,
     role |-> Str(role), createdAt |-> createdAt]

Pending == [tag |-> "pending"]

Thrown(message) == [tag |-> "thrown", message |-> message]

Init ==
    /\ pc = "idle"
    /\ photoDataUri = Undefined
    /\ extractionOutput = Pending
    /\ extractedData = Undefined
    /\ flow = [active |-> FALSE]
    /\ validationOutput = Pending
    /\ final = [set |-> FALSE]
    /\ result = [returned |-> FALSE]
    /\ inFlight = {}
    /\ log = << >>
    /\ db \in {Undefined, Val("firestore")}
    /\ saves = << >>
    /\ invoices = << >>
    /\ autoIds = 0
    /\ serverTime = 1
    /\ users = [uid \in Uids |->
                   IF uid = "root" THEN Val(NewProfile(uid, "admin", Timestamp(0)))
                   ELSE Undefined]
    /\ lastRequest = [made |-> FALSE]
    /\ origin = {}
    /\ adminWrites = {}
    /\ profileCalls = << >>
    /\ authState = [mounted |-> FALSE, listening |-> FALSE,
                    currentUser |-> Null, userProfile |-> Null,
                    userRole |-> Null, authLoading |-> TRUE,
                    roleLoading |-> TRUE]
    /\ authCallbacks = << >>
    /\ form = Undefined

\* -------------------------------------------------------------- actions

\* processInvoiceUpload up to its first await: the schema check on the form
\* field, then the call of extractInvoiceData.
ProcessInvoiceUpload(uri) ==
    /\ pc = "idle"
    /\ photoDataUri' = uri
    /\ LET issues == ProcessInvoiceSchemaIssues(uri)
       IN  IF issues # << >>
           THEN /\ result' = Outcome(Null, Null, Val(Join(issues, ", ")))
                /\ pc' = "done"
                /\ UNCHANGED << inFlight, log >>
           ELSE /\ pc' = "extracting"
                /\ inFlight' = inFlight \cup {"extraction"}
                /\ log' = Append(log, "extract.call")
                /\ UNCHANGED result
    /\ UNCHANGED << extractionOutput, extractedData, flow, validationOutput, final >>
    /\ UNCHANGED exceptUpload

\* The validation flow from its start to its await of the prompt, on an
\* input that passed the input schema.
BeginValidation(wrapped, clock, skew) ==
    LET clockAgain == AddTicks(clock, skew)
        input == [date |-> wrapped.date.v, amount |-> wrapped.amount.v,
                  vendor |-> wrapped.vendor.v]
    IN  [active |-> TRUE,
         input |-> input,
         currentDate |-> clock,
         twoYearsAgo |-> TwoYearsAgo(clock, clockAgain),
         rules |-> DeterministicRules(input, clock, clockAgain)]

\* The extraction prompt answers: the flow normalizes the answer and
\* processInvoiceUpload goes on, to a return or to the call of
\* validateExtractedData, whose flow runs up to its own await.
ExtractionPromptReturns(output, clock, skew) ==
    /\ pc = "extracting"
    /\ extractionOutput' = output
    /\ LET extracted == ExtractInvoiceDataFlow(output)
       IN  /\ extractedData' = extracted
           /\ IF IncompleteExtraction(extracted)
              THEN /\ result' =
                        IF extracted.tag # "val"
                        THEN Outcome(Null, Null, Val(ExtractionFailedError))
                        ELSE Outcome(extracted, Null,
                                     Val(MissingFieldsError(MissingFields(extracted.v))))
                   /\ pc' = "done"
                   /\ inFlight' = inFlight \ {"extraction"}
                   /\ log' = Append(log, "extract.return")
                   /\ UNCHANGED flow
              ELSE IF ConformsToInputSchema(ValidationInput(extracted.v))
              THEN /\ flow' = BeginValidation(ValidationInput(extracted.v),
                                              clock, skew)
                   /\ pc' = "validating"
                   /\ inFlight' = (inFlight \ {"extraction"}) \cup {"validation"}
                   /\ log' = log \o << "extract.return", "validate.call" >>
                   /\ UNCHANGED result
              ELSE /\ result' = Caught(InputSchemaError)
                   /\ pc' = "done"
                   /\ inFlight' = inFlight \ {"extraction"}
                   /\ log' = log \o << "extract.return", "validate.call",
                                       "validate.throw" >>
                   /\ UNCHANGED flow
    /\ UNCHANGED << photoDataUri, validationOutput, final >>
    /\ UNCHANGED exceptUpload

\* The extraction call fails: the catch block of processInvoiceUpload.
ExtractionPromptThrows(message) ==
    /\ pc = "extracting"
    /\ extractionOutput' = Thrown(message)
    /\ result' = Caught(message)
    /\ pc' = "done"
    /\ inFlight' = inFlight \ {"extraction"}
    /\ log' = Append(log, "extract.throw")
    /\ UNCHANGED << photoDataUri, extractedData, flow, validationOutput, final >>
    /\ UNCHANGED exceptUpload

\* The validation prompt answers: the flow merges, its return value is
\* checked against the output schema, and processInvoiceUpload returns.
ValidationPromptReturns(output) ==
    /\ pc = "validating"
    /\ validationOutput' = output
    /\ LET merged == FinalValidationResult(output, flow.rules)
           summary == FinalSummary(output, merged)
       IN  /\ final' = [set |-> TRUE, validationResult |-> merged,
                        summary |-> summary]
           /\ IF ConformsToOutputSchema(merged)
              THEN /\ result' = Outcome(extractedData,
                                   Val(ValidateExtractedDataOutput(merged, summary)),
                                   Undefined)
                   /\ log' = Append(log, "validate.return")
              ELSE /\ result' = Caught(OutputSchemaError)
                   /\ log' = Append(log, "validate.throw")
    /\ pc' = "done"
    /\ inFlight' = inFlight \ {"validation"}
    /\ UNCHANGED << photoDataUri, extractionOutput, extractedData, flow >>
    /\ UNCHANGED exceptUpload

\* The validation call fails: the catch block of processInvoiceUpload.
ValidationPromptThrows(message) ==
    /\ pc = "validating"
    /\ validationOutput' = Thrown(message)
    /\ result' = Caught(message)
    /\ pc' = "done"
    /\ inFlight' = inFlight \ {"validation"}
    /\ log' = Append(log, "validate.throw")
    /\ UNCHANGED << photoDataUri, extractionOutput, extractedData, flow, final >>
    /\ UNCHANGED exceptUpload

\* saveInvoice up to its await of addDoc: the three early returns, or the
\* call of addDoc, which generates the document's identifier.
SaveInvoiceCall(invoiceData, userId) ==
    /\ Len(saves) < MaxSaves
    /\ LET refusal == SaveRefusal(userId, db, SaveInvoiceSchema(invoiceData))
           call == [invoiceData |-> invoiceData, userId |-> userId]
       IN  IF refusal.tag = "val"
           THEN /\ saves' = Append(saves,
                       [call |-> call, status |-> "returned", addDocCalls |-> 0,
                        write |-> Undefined, addDoc |-> Undefined,
                        result |-> SaveFailure(refusal.v)])
                /\ UNCHANGED autoIds
           ELSE /\ saves' = Append(saves,
                       [call |-> call, status |-> "writing", addDocCalls |-> 1,
                        write |-> Val([id |-> autoIds + 1,
                                       data |-> NewInvoiceDocument(invoiceData, userId)]),
                        addDoc |-> Pending, result |-> Pending])
                /\ autoIds' = autoIds + 1
    /\ UNCHANGED << db, invoices, serverTime >>

\* saveInvoice is called by something other than the review form.
SaveInvoice(invoiceData, userId) ==
    /\ SaveInvoiceCall(invoiceData, userId)
    /\ UNCHANGED exceptSave

\* The store commits the write of the call i and addDoc resolves: saveInvoice
\* returns the identifier.
AddDocResolves(i) ==
    /\ i \in 1..Len(saves)
    /\ saves[i].status = "writing"
    /\ LET write == saves[i].write.v
       IN  /\ invoices' = Committed(invoices, write.id, write.data, serverTime)
           /\ saves' = [saves EXCEPT ![i].status = "returned",
                                     ![i].addDoc = Val(write.id),
                                     ![i].result = SaveSuccess(write.id)]
    /\ serverTime' = serverTime + 1
    /\ UNCHANGED << db, autoIds >>
    /\ UNCHANGED exceptSave

\* The store rejects the write of the call i and addDoc rejects: the catch
\* block of saveInvoice.
AddDocRejects(i, message) ==
    /\ i \in 1..Len(saves)
    /\ saves[i].status = "writing"
    /\ saves' = [saves EXCEPT ![i].status = "returned",
                              ![i].addDoc = Thrown(message),
                              ![i].result = SaveCaught(message)]
    /\ UNCHANGED << db, invoices, autoIds, serverTime >>
    /\ UNCHANGED exceptSave

\* A direct request to the store, as the rules decided it.
Request(collection, op, auth, key, resource, data, allowed) ==
    IF allowed
    THEN [made |-> TRUE, collection |-> collection, op |-> op, auth |-> auth,
          admin |-> isAdmin(users, auth.v.uid),
          key |-> key, resource |-> resource, data |-> data, allowed |-> TRUE]
    ELSE [made |-> TRUE, collection |-> collection, op |-> op, auth |-> auth,
          allowed |-> FALSE]

\* The documents written by an administrator, with one more when the caller
\* of an allowed write is one.
AdminWritesWith(collection, key, auth, allowed) ==
    IF allowed /\ isAdmin(users, auth.v.uid)
    THEN adminWrites \cup {<< collection, key >>}
    ELSE adminWrites

\* The part of an invoice that the rules read.
OwnerOf(data) == Val([userId |-> data.userId])

\* A client asks the store to create an invoice.
InvoiceCreate(auth, data) ==
    /\ autoIds < MaxDocuments
    /\ LET id == autoIds + 1
           written == ResolveServerTimestamps(data, serverTime)
           allowed == AllowInvoicesCreate(users, auth, written)
       IN  /\ lastRequest' = Request("invoices", "create", auth, Undefined,
                                     Undefined, OwnerOf(written), allowed)
           /\ IF allowed
              THEN /\ invoices' = Append(invoices,
                          [id |-> id, createTime |-> serverTime, data |-> written])
                   /\ origin' = origin \cup
                          {[collection |-> "invoices", key |-> id,
                            creator |-> auth.v.uid, data |-> written]}
                   /\ autoIds' = id
                   /\ serverTime' = serverTime + 1
              ELSE UNCHANGED << invoices, origin, autoIds, serverTime >>
           /\ adminWrites' = AdminWritesWith("invoices", id, auth, allowed)
    /\ UNCHANGED << db, saves, users >>
    /\ UNCHANGED << uploadVars, clientVars >>

\* A client asks for the invoice at the position n.
InvoiceGet(auth, n) ==
    /\ n \in 1..Len(invoices)
    /\ lastRequest' = Request("invoices", "get", auth, Undefined,
                              OwnerOf(invoices[n].data), Undefined,
                              AllowInvoicesOfOwnerOrAdmin(users, auth, invoices[n].data))
    /\ UNCHANGED << users, origin, adminWrites >>
    /\ UNCHANGED << uploadVars, saveVars, clientVars >>

\* A client queries the invoices of one userId, or all of them.
InvoiceList(auth, filter) ==
    /\ lastRequest' = Request("invoices", "list", auth, filter, Undefined, Undefined,
                              AllowInvoicesList(users, auth, filter))
    /\ UNCHANGED << users, origin, adminWrites >>
    /\ UNCHANGED << uploadVars, saveVars, clientVars >>

\* The document after an update that names the fields of the patch.
Merged(resource, patch) ==
    [k \in DOMAIN resource \cup DOMAIN patch |->
        IF k \in DOMAIN patch THEN patch[k] ELSE resource[k]]

\* A client asks the store to update fields of the invoice at n.
InvoiceUpdate(auth, n, patch) ==
    /\ n \in 1..Len(invoices)
    /\ LET data == Merged(invoices[n].data, patch)
           allowed == AllowInvoicesOfOwnerOrAdmin(users, auth, invoices[n].data)
       IN  /\ lastRequest' = Request("invoices", "update", auth, Undefined,
                                     OwnerOf(invoices[n].data), OwnerOf(data),
                                     allowed)
           /\ invoices' = IF allowed THEN [invoices EXCEPT ![n].data = data]
                          ELSE invoices
           /\ adminWrites' = AdminWritesWith("invoices", invoices[n].id, auth, allowed)
    /\ UNCHANGED << db, saves, autoIds, serverTime, users, origin >>
    /\ UNCHANGED << uploadVars, clientVars >>

\* A client asks the store to delete the invoice at n.
InvoiceDelete(auth, n) ==
    /\ n \in 1..Len(invoices)
    /\ LET allowed == AllowInvoicesOfOwnerOrAdmin(users, auth, invoices[n].data)
       IN  /\ lastRequest' = Request("invoices", "delete", auth, Undefined,
                                     OwnerOf(invoices[n].data), Undefined,
                                     allowed)
           /\ invoices' = IF allowed
                          THEN SubSeq(invoices, 1, n - 1)
                               \o SubSeq(invoices, n + 1, Len(invoices))
                          ELSE invoices
           /\ adminWrites' = AdminWritesWith("invoices", invoices[n].id, auth, allowed)
    /\ UNCHANGED << db, saves, autoIds, serverTime, users, origin >>
    /\ UNCHANGED << uploadVars, clientVars >>

\* The part of a profile that the claims about the rules read.
RoleOf(data) == Val([role |-> data.role])

\* A client asks the store to create the profile of userId.
UserCreate(auth, userId, data) ==
    /\ users[userId] = Undefined
    /\ LET allowed == AllowUsersCreate(auth, userId, data)
       IN  /\ lastRequest' = Request("users", "create", auth, Val(userId),
                                     Undefined, RoleOf(data), allowed)
           /\ IF allowed
              THEN /\ users' = [users EXCEPT ![userId] = Val(data)]
                   /\ origin' = origin \cup
                          {[collection |-> "users", key |-> userId,
                            creator |-> auth.v.uid, data |-> data]}
              ELSE UNCHANGED << users, origin >>
           /\ adminWrites' = AdminWritesWith("users", userId, auth, allowed)
    /\ UNCHANGED << uploadVars, saveVars, clientVars >>

\* A client asks for the profile of userId.
UserRead(auth, userId) ==
    /\ lastRequest' = Request("users", "get", auth, Val(userId),
                              IF users[userId] = Undefined THEN Undefined
                              ELSE RoleOf(users[userId].v),
                              Undefined, AllowUsersRead(users, auth, userId))
    /\ UNCHANGED << users, origin, adminWrites >>
    /\ UNCHANGED << uploadVars, saveVars, clientVars >>

\* A client asks the store to update fields of the profile of userId.
UserUpdate(auth, userId, patch) ==
    /\ users[userId] # Undefined
    /\ LET resource == users[userId].v
           data == Merged(resource, patch)
           allowed == AllowUsersUpdate(users, auth, userId, data, resource)
       IN  /\ lastRequest' = Request("users", "update", auth, Val(userId),
                                     RoleOf(resource), RoleOf(data), allowed)
           /\ users' = IF allowed THEN [users EXCEPT ![userId] = Val(data)]
                       ELSE users
           /\ adminWrites' = AdminWritesWith("users", userId, auth, allowed)
    /\ UNCHANGED origin
    /\ UNCHANGED << uploadVars, saveVars, clientVars >>

\* A client asks the store to delete the profile of userId.
UserDelete(auth, userId) ==
    /\ users[userId] # Undefined
    /\ LET allowed == AllowUsersDelete(users, auth, userId)
       IN  /\ lastRequest' = Request("users", "delete", auth, Val(userId),
                                     RoleOf(users[userId].v), Undefined, allowed)
           /\ users' = IF allowed THEN [users EXCEPT ![userId] = Undefined]
                       ELSE users
           /\ adminWrites' = AdminWritesWith("users", userId, auth, allowed)
    /\ UNCHANGED origin
    /\ UNCHANGED << uploadVars, saveVars, clientVars >>

\* ensureUserProfile's payload, stamped by the clock.
EnsuredProfile(user, time) ==
    NewProfile(user.v.uid, "user", Timestamp(time))

\* !user || !user.uid
NoUser(user) == user = Null \/ user.v.uid = ""

\* A call that writes the profile of the user: where it stands, what its
\* getDoc answered, what it sent to setDoc, and the profile that its setDoc
\* found and left in the store.
ProfileCall(kind, user, status, data) ==
    [kind |-> kind, user |-> user, status |-> status, snap |-> Pending,
     data |-> data, before |-> Pending, after |-> Pending]

\* ensureUserProfile is called: it returns at once without a store handle or
\* without a user, and reads the user's profile otherwise.
EnsureUserProfile(user) ==
    /\ Len(profileCalls) < MaxProfileCalls
    /\ profileCalls' = Append(profileCalls,
          ProfileCall("ensure", user,
                      IF db = Undefined \/ NoUser(user) THEN "returned"
                      ELSE "reading",
                      Undefined))
    /\ UNCHANGED << uploadVars, saveVars, rulesVars, authVars, form >>

\* getDoc answers the call i: a profile that exists ends the call, and a
\* missing one makes it send a new profile to setDoc.
GetDocResolves(i) ==
    /\ i \in 1..Len(profileCalls)
    /\ profileCalls[i].status = "reading"
    /\ LET call == profileCalls[i]
           snap == users[call.user.v.uid]
       IN  profileCalls' = [profileCalls EXCEPT
              ![i].snap = snap,
              ![i].status = IF snap = Undefined THEN "writing" ELSE "returned",
              ![i].data = IF snap = Undefined
                          THEN Val(EnsuredProfile(call.user, serverTime))
                          ELSE Undefined]
    /\ UNCHANGED << uploadVars, saveVars, rulesVars, authVars, form >>

\* getDoc fails: the catch block logs the error and the call ends.
GetDocRejects(i) ==
    /\ i \in 1..Len(profileCalls)
    /\ profileCalls[i].status = "reading"
    /\ profileCalls' = [profileCalls EXCEPT ![i].snap = Thrown(<< >>),
                                            ![i].status = "returned"]
    /\ UNCHANGED << uploadVars, saveVars, rulesVars, authVars, form >>

\* The sign-up form sends the profile of the account it has just created to
\* setDoc, without reading first.
SignupSetDoc(uid) ==
    /\ Len(profileCalls) < MaxProfileCalls
    /\ db # Undefined
    /\ \A i \in 1..Len(profileCalls) :
          ~(profileCalls[i].kind = "signup" /\ profileCalls[i].user = AuthOf(uid))
    /\ profileCalls' = Append(profileCalls,
          ProfileCall("signup", AuthOf(uid), "writing",
                      Val(NewProfile(uid, "user", ServerTimestamp))))
    /\ UNCHANGED << uploadVars, saveVars, rulesVars, authVars, form >>

\* The store decides the setDoc of the call i, as a create or as an update
\* of the whole profile, and the call ends either way.
SetDocDecided(i) ==
    /\ i \in 1..Len(profileCalls)
    /\ profileCalls[i].status = "writing"
    /\ LET call == profileCalls[i]
           uid == call.user.v.uid
           data == ResolveServerTimestamps(call.data.v, serverTime)
           allowed == IF users[uid] = Undefined
                      THEN AllowUsersCreate(call.user, uid, data)
                      ELSE AllowUsersUpdate(users, call.user, uid, data,
                                            users[uid].v)
       IN  /\ profileCalls' = [profileCalls EXCEPT
                 ![i].status = "returned",
                 ![i].before = users[uid],
                 ![i].after = IF allowed THEN Val(data) ELSE users[uid]]
           /\ users' = IF allowed THEN [users EXCEPT ![uid] = Val(data)]
                       ELSE users
           /\ origin' = IF allowed /\ users[uid] = Undefined
                        THEN origin \cup {[collection |-> "users", key |-> uid,
                                           creator |-> uid, data |-> data]}
                        ELSE origin
           /\ adminWrites' = AdminWritesWith("users", uid, call.user,
                                             allowed /\ users[uid] # Undefined)
    /\ UNCHANGED lastRequest
    /\ UNCHANGED << uploadVars, saveVars, authVars, form >>

\* Time passes.
ClockAdvances ==
    /\ serverTime < MaxTime
    /\ serverTime' = serverTime + 1
    /\ UNCHANGED << db, saves, invoices, autoIds >>
    /\ UNCHANGED << uploadVars, rulesVars, clientVars >>

\* AuthProvider's effect runs once after the first render: without a store
\* handle it ends both loadings and sets no listener up.
AuthEffect ==
    /\ ~authState.mounted
    /\ authState' = IF db = Undefined
                    THEN [authState EXCEPT !.mounted = TRUE,
                                           !.authLoading = FALSE,
                                           !.roleLoading = FALSE]
                    ELSE [authState EXCEPT !.mounted = TRUE,
                                           !.listening = TRUE]
    /\ UNCHANGED << authCallbacks, profileCalls >>
    /\ UNCHANGED << uploadVars, saveVars, rulesVars, form >>

\* The listener is told of the signed-in user, or of null: the callback runs
\* to its first await, inside ensureUserProfile, or to its end when nobody
\* is signed in.
AuthStateChanged(user) ==
    /\ authState.listening
    /\ Len(authCallbacks) < MaxAuthEvents
    /\ IF user # Null
       THEN /\ Len(profileCalls) < MaxProfileCalls
            /\ authState' = [authState EXCEPT !.currentUser = user,
                                              !.authLoading = FALSE,
                                              !.roleLoading = TRUE]
            /\ profileCalls' = Append(profileCalls,
                   ProfileCall("ensure", user,
                               IF NoUser(user) THEN "returned" ELSE "reading",
                               Undefined))
            /\ authCallbacks' = Append(authCallbacks,
                   [user |-> user, status |-> "ensuring",
                    call |-> Len(profileCalls) + 1])
       ELSE /\ authState' = [authState EXCEPT !.currentUser = Null,
                                              !.authLoading = FALSE,
                                              !.userProfile = Null,
                                              !.userRole = Null,
                                              !.roleLoading = FALSE]
            /\ authCallbacks' = Append(authCallbacks,
                   [user |-> user, status |-> "done", call |-> 0])
            /\ UNCHANGED profileCalls
    /\ UNCHANGED << uploadVars, saveVars, rulesVars, form >>

\* ensureUserProfile has returned to the callback k, which asks for the
\* user's profile.
EnsureReturned(k) ==
    /\ k \in 1..Len(authCallbacks)
    /\ authCallbacks[k].status = "ensuring"
    /\ profileCalls[authCallbacks[k].call].status = "returned"
    /\ authCallbacks' = [authCallbacks EXCEPT ![k].status = "fetching"]
    /\ UNCHANGED << authState, profileCalls >>
    /\ UNCHANGED << uploadVars, saveVars, rulesVars, form >>

\* The profile shown when the store has none for the user.
DefaultProfile(user, time) ==
    NewProfile(user.v.uid, "user", Timestamp(time))

\* getDoc answers the callback k, which sets the profile and the role it
\* read, or the default ones, and ends the loading of the role.
ProfileFetched(k) ==
    /\ k \in 1..Len(authCallbacks)
    /\ authCallbacks[k].status = "fetching"
    /\ LET user == authCallbacks[k].user
           snap == users[user.v.uid]
           profileData == IF snap # Undefined THEN snap.v
                          ELSE DefaultProfile(user, serverTime)
       IN  authState' = [authState EXCEPT !.userProfile = Val(profileData),
                                          !.userRole = profileData.role,
                                          !.roleLoading = FALSE]
    /\ authCallbacks' = [authCallbacks EXCEPT ![k].status = "done"]
    /\ UNCHANGED profileCalls
    /\ UNCHANGED << uploadVars, saveVars, rulesVars, form >>

\* getDoc fails in the callback k, which clears the profile and the role and
\* ends the loading of the role.
ProfileFetchFails(k) ==
    /\ k \in 1..Len(authCallbacks)
    /\ authCallbacks[k].status = "fetching"
    /\ authState' = [authState EXCEPT !.userProfile = Null,
                                      !.userRole = Null,
                                      !.roleLoading = FALSE]
    /\ authCallbacks' = [authCallbacks EXCEPT ![k].status = "done"]
    /\ UNCHANGED profileCalls
    /\ UNCHANGED << uploadVars, saveVars, rulesVars, form >>

\* The JavaScript string of a text of the pipeline.
JsText(text) ==
    IF text = << >> THEN ""
    ELSE IF text = << "A", "c", "m", "e" >> THEN "Acme"
    ELSE "text"

\* An optional text and an optional number of the extraction, as values of
\* the record to save.
SaveText(field) == IF field.tag = "val" THEN Str(field.v) ELSE field

SaveNumber(field) == IF field.tag = "val" THEN Num(field.v) ELSE field

\* initialExtractedData.items || [], of the array that the flow returns.
FormItems(items) ==
    Arr([k \in 1..Len(items) |->
            Obj([description |-> SaveText(items[k].description),
                 quantity |-> SaveNumber(items[k].quantity),
                 unitPrice |-> SaveNumber(items[k].unitPrice),
                 totalPrice |-> SaveNumber(items[k].totalPrice)])])

\* The form's first formData, from the two props.
InitialFormData(extracted, validation) ==
    [date |-> IF TruthyDate(extracted.date) THEN Str(extracted.date.v)
              ELSE Str(""),
     amount |-> IF TruthyNum(extracted.amount) THEN Num(extracted.amount.v)
                ELSE Num(0),
     vendor |-> IF TruthyStr(extracted.vendor) THEN Str(JsText(extracted.vendor.v))
                ELSE Str(""),
     invoiceNumber |-> IF TruthyStr(extracted.invoiceNumber)
                       THEN Str(JsText(extracted.invoiceNumber.v)) ELSE Null,
     taxAmount |-> IF TruthyNum(extracted.taxAmount)
                   THEN Num(extracted.taxAmount.v) ELSE Null,
     items |-> FormItems(extracted.items),
     category |-> Str(""),
     validationSummary |-> IF validation.summary # << >>
                           THEN Str(validation.summary) ELSE Str(""),
     isDateValid |-> Bool(validation.validationResult.isDateValid),
     isAmountValid |-> Bool(validation.validationResult.isAmountValid),
     isVendorValid |-> Bool(validation.validationResult.isVendorValid),
     isSuspicious |-> Bool(validation.validationResult.suspicious),
     suspiciousReasons |->
        Arr([k \in 1..Len(validation.validationResult.reasons) |->
                Str(validation.validationResult.reasons[k])])]

\* The upload page shows the form: the call returned no error and both the
\* extracted data and the verdict.
ShowsForm(outcome) ==
    /\ outcome.returned
    /\ ~(outcome.error.tag = "val" /\ outcome.error.v # << >>)
    /\ outcome.extractedData.tag = "val"
    /\ outcome.validationResult.tag = "val"

\* The review form is mounted with the result of processInvoiceUpload and
\* the name of the chosen file.
OpenForm(imageFileName) ==
    /\ form = Undefined
    /\ pc = "done"
    /\ ShowsForm(result)
    /\ form' = Val([mounted |-> TRUE, imageFileName |-> imageFileName,
                    formData |-> InitialFormData(result.extractedData.v,
                                                 result.validationResult.v),
                    loading |-> FALSE, issued |-> {}, awaited |-> {},
                    edits |-> 0, toast |-> Undefined])
    /\ UNCHANGED << uploadVars, saveVars, rulesVars, profileCalls, authVars >>

\* The value an input of type number hands to the form data.
EmptyInput == [empty |-> TRUE]

NumberInput(n) == [empty |-> FALSE, n |-> n]

ParsedNumber(value) == IF value.empty THEN Null ELSE Num(value.n)

\* A variant that takes the verdict back when a field is edited.
HandleChangeDataClearingVerdict(formData, name, type, value) ==
    [formData EXCEPT ![name] = IF type = "number" THEN ParsedNumber(value)
                               ELSE Str(value),
                     !.isSuspicious = Bool(FALSE),
                     !.suspiciousReasons = Arr(<< >>)]

\* handleChange: the form data with the named field set.
HandleChangeData(formData, name, type, value) ==
    [formData EXCEPT ![name] = IF type = "number" THEN ParsedNumber(value)
                               ELSE Str(value)]

\* The form is open and may still be edited in this behaviour.
Editable ==
    /\ form # Undefined
    /\ form.v.mounted
    /\ form.v.edits < MaxEdits

\* The user edits one of the named inputs.
HandleChange(name, type, value) ==
    /\ Editable
    /\ form' = Val([form.v EXCEPT
          !.formData = HandleChangeData(form.v.formData, name, type, value),
          !.edits = @ + 1])
    /\ UNCHANGED << uploadVars, saveVars, rulesVars, profileCalls, authVars >>

\* The user selects a category.
HandleCategoryChange(value) ==
    /\ Editable
    /\ form' = Val([form.v EXCEPT !.formData.category = Str(value),
                                  !.edits = @ + 1])
    /\ UNCHANGED << uploadVars, saveVars, rulesVars, profileCalls, authVars >>

\* The items with the unit price of the one at index set.
WithUnitPrice(items, index, value) ==
    Arr([k \in 1..Len(items.v.elems) |->
            IF k = index
            THEN Obj([items.v.elems[k].v.fields EXCEPT
                        !.unitPrice = ParsedNumber(value)])
            ELSE items.v.elems[k]])

\* The user edits the unit price of the item at index.
ItemPriceChange(index, value) ==
    /\ Editable
    /\ index \in 1..Len(form.v.formData.items.v.elems)
    /\ form' = Val([form.v EXCEPT
          !.formData.items = WithUnitPrice(form.v.formData.items, index, value),
          !.edits = @ + 1])
    /\ UNCHANGED << uploadVars, saveVars, rulesVars, profileCalls, authVars >>

\* x || null
OrNull(x) ==
    IF x.tag # "val" THEN Null
    ELSE IF x.v.type = "number" /\ x.v.n = 0 THEN Null
    ELSE IF x.v.type = "string" /\ x.v.s = "" THEN Null
    ELSE x

\* invoiceToSave, from the form data and the imageFileName prop.
InvoiceToSave(formData, imageFileName) ==
    Obj([date |-> formData.date,
         amount |-> formData.amount,
         vendor |-> formData.vendor,
         invoiceNumber |-> OrNull(formData.invoiceNumber),
         taxAmount |-> OrNull(formData.taxAmount),
         items |-> formData.items,
         category |-> formData.category,
         validationSummary |-> formData.validationSummary,
         isDateValid |-> formData.isDateValid,
         isAmountValid |-> formData.isAmountValid,
         isVendorValid |-> formData.isVendorValid,
         isSuspicious |-> formData.isSuspicious,
         suspiciousReasons |-> formData.suspiciousReasons,
         imageFileName |-> imageFileName,
         userId |-> Undefined, createdAt |-> Undefined,
         updatedAt |-> Undefined])

\* A variant of the button that stays enabled while a save is awaited.
SubmitDisabledWithoutLoading(loading, currentUser) == currentUser = Null

\* disabled={loading || !currentUser} of the submit button.
SubmitDisabled(loading, currentUser) == loading \/ currentUser = Null

AuthenticationErrorToast == "Authentication Error"

ValidationErrorToast == "Validation Error"

\* The form is submitted, which the disabled button prevents: handleSubmit
\* runs to its first await, or to one of its two early returns.
HandleSubmit ==
    /\ form # Undefined
    /\ form.v.mounted
    /\ ~SubmitDisabled(form.v.loading, authState.currentUser)
    /\ IF authState.currentUser = Null
       THEN /\ form' = Val([form.v EXCEPT !.toast = Val(AuthenticationErrorToast)])
            /\ UNCHANGED saveVars
       ELSE IF form.v.formData.category = Str("")
       THEN /\ form' = Val([form.v EXCEPT !.toast = Val(ValidationErrorToast)])
            /\ UNCHANGED saveVars
       ELSE /\ SaveInvoiceCall(InvoiceToSave(form.v.formData,
                                             form.v.imageFileName),
                               Str(authState.currentUser.v.uid))
            /\ form' = Val([form.v EXCEPT
                  !.loading = TRUE,
                  !.issued = @ \cup {Len(saves) + 1},
                  !.awaited = @ \cup {Len(saves) + 1}])
    /\ UNCHANGED << uploadVars, rulesVars, profileCalls, authVars >>

\* saveInvoice's result reaches the form, which ends its loading, and which
\* the page unmounts after a success.
SaveReturns(i) ==
    /\ form # Undefined
    /\ i \in form.v.awaited
    /\ saves[i].status = "returned"
    /\ form' = Val([form.v EXCEPT
          !.loading = FALSE,
          !.awaited = @ \ {i},
          !.mounted = @ /\ ~saves[i].result.success,
          !.toast = Val(IF saves[i].result.success THEN "Invoice Saved"
                        ELSE "Save Failed")])
    /\ UNCHANGED << uploadVars, saveVars, rulesVars, profileCalls, authVars >>

\* -------------------------------------------------------------- inputs

Iso(y, m, d) == [iso |-> TRUE, y |-> y, m |-> m, d |-> d]

Text(s) == [iso |-> FALSE, text |-> s]

Clock(y, m, d, t) == [y |-> y, m |-> m, d |-> d, t |-> t]

PhotoDataUris ==
    {Null,
     Val(<< >>),
     Val(<< "h", "i" >>),
     Val(SubSeq(DataImagePrefix, 1, Len(DataImagePrefix) - 1)),
     Val(<< "x" >> \o DataImagePrefix),
     Val(<< "d", "a", "t", "a", ":", "t", "e", "x", "t", "/" >>),
     Val(DataImagePrefix),
     Val(DataImagePrefix \o << "p", "n", "g" >>)}

ThrownMessages == {<< >>, << "fetch failed" >>}

Skews == 0..MaxClockSkew

OptionalBooleans == {Undefined, Null, Val(TRUE), Val(FALSE)}

OptionalReasons == {Undefined, Null, Val(<< >>), Val(<< "AI reason" >>)}

OptionalSummaries == {Undefined, Val(<< >>), Val(<< "AI summary" >>)}

NoItems == {Undefined}

SomeItems ==
    {Undefined,
     Val(<< [description |-> Val(<< "Milk" >>), quantity |-> Undefined,
             unitPrice |-> Null, totalPrice |-> Val(7)],
            [description |-> Val(<< >>), quantity |-> Val(2),
             unitPrice |-> Val(3), totalPrice |-> Undefined] >>)}

ExtractionOutputsOf(dates, amounts, vendors, items) ==
    {Null} \cup
    {Val([date |-> d, amount |-> a, vendor |-> v, invoiceNumber |-> Undefined,
          taxAmount |-> Undefined, items |-> i]) :
        d \in dates, a \in amounts, v \in vendors, i \in items}

VerdictOutputsOf(booleans, reasons, summaries) ==
    {Null} \cup
    {Val([validationResult |-> r, summary |-> s]) :
        r \in {Undefined, Null}, s \in summaries} \cup
    {Val([validationResult |->
              Val([isDateValid |-> d, isAmountValid |-> a, isVendorValid |-> v,
                   suspicious |-> x, reasons |-> r]),
          summary |-> s]) :
        d \in booleans, a \in booleans, v \in booleans, x \in booleans,
        r \in reasons, s \in summaries}

\* The pipeline on a few extraction answers and every shape of verdict.
FewClocks == {Clock(2024, 6, 15, TicksPerDay - 1)}

FewExtractionOutputs ==
    ExtractionOutputsOf(
        {Undefined, Val(Text("")), Val(Iso(2024, 6, 1)), Val(Iso(2021, 6, 1))},
        {Undefined, Null, Val(0), Val(150)},
        {Undefined, Val(<< >>), Val(<< "A", "b" >>), Val(<< "A", "c", "m", "e" >>)},
        SomeItems)

AllVerdictOutputs ==
    VerdictOutputsOf(OptionalBooleans, OptionalReasons, OptionalSummaries)

\* Each disjunct states its action's guard ahead of the choice of the input.
Next ==
    \/ pc = "idle" /\ \E uri \in PhotoDataUris : ProcessInvoiceUpload(uri)
    \/ pc = "extracting" /\
          \E output \in FewExtractionOutputs, clock \in FewClocks, skew \in Skews :
             ExtractionPromptReturns(output, clock, skew)
    \/ pc = "extracting" /\
          \E message \in ThrownMessages : ExtractionPromptThrows(message)
    \/ pc = "validating" /\
          \E output \in AllVerdictOutputs : ValidationPromptReturns(output)
    \/ pc = "validating" /\
          \E message \in ThrownMessages : ValidationPromptThrows(message)

Spec == Init /\ [][Next]_vars

\* The pipeline on many dates, amounts and vendors, read at several times of
\* several days, and a few verdicts.
RuleClocks ==
    {Clock(2024, 6, 15, 0),
     Clock(2024, 6, 15, TicksPerDay - 1),
     Clock(2024, 2, 29, 0),
     Clock(2024, 12, 31, TicksPerDay - 1)}

RuleDates ==
    {Undefined,
     Val(Text("not a date")),
     Val(Iso(2023, 2, 30)),
     Val(Iso(2021, 6, 15)),
     Val(Iso(2022, 1, 1)),
     Val(Iso(2022, 2, 28)),
     Val(Iso(2022, 3, 1)),
     Val(Iso(2022, 6, 14)),
     Val(Iso(2022, 6, 15)),
     Val(Iso(2022, 6, 16)),
     Val(Iso(2024, 2, 29)),
     Val(Iso(2024, 6, 14)),
     Val(Iso(2024, 6, 15)),
     Val(Iso(2024, 6, 16))}

RuleAmounts ==
    {Null, Val(-5), Val(0), Val(1), Val(999999), Val(1000000), Val(1000001)}

RuleVendors ==
    {Val(<< >>),
     Val(<< "A" >>),
     Val(<< "A", "b" >>),
     Val(<< "A", "b", "c" >>),
     Val(<< "A", " ", " " >>),
     Val(<< " ", " ", " " >>),
     Val(<< " ", "A", "b", " " >>),
     Val(<< "A", "c", "m", "e" >>)}

RuleExtractionOutputs ==
    ExtractionOutputsOf(RuleDates, RuleAmounts, RuleVendors, NoItems)

FewVerdictOutputs ==
    {Null,
     Val([validationResult |-> Undefined, summary |-> Undefined]),
     Val([validationResult |->
              Val([isDateValid |-> Val(FALSE), isAmountValid |-> Undefined,
                   isVendorValid |-> Undefined, suspicious |-> Undefined,
                   reasons |-> Undefined]),
          summary |-> Val(<< "AI summary" >>)])}

NextRules ==
    \/ pc = "idle" /\ \E uri \in PhotoDataUris : ProcessInvoiceUpload(uri)
    \/ pc = "extracting" /\
          \E output \in RuleExtractionOutputs, clock \in RuleClocks, skew \in Skews :
             ExtractionPromptReturns(output, clock, skew)
    \/ pc = "extracting" /\
          \E message \in ThrownMessages : ExtractionPromptThrows(message)
    \/ pc = "validating" /\
          \E output \in FewVerdictOutputs : ValidationPromptReturns(output)
    \/ pc = "validating" /\
          \E message \in ThrownMessages : ValidationPromptThrows(message)

SpecRules == Init /\ [][NextRules]_vars

\* saveInvoice on records that keep or break the schema field by field, by
\* callers with and without an identity, the store handle there or not.
ValidInvoice ==
    [date |-> Str("2024-06-01"), amount |-> Num(150), vendor |-> Str("Acme"),
     invoiceNumber |-> Undefined, taxAmount |-> Null,
     items |-> Arr(<< Obj([description |-> Str("Milk"), quantity |-> Num(1),
                           unitPrice |-> Num(7), totalPrice |-> Num(7)]) >>),
     category |-> Str("gider"), validationSummary |-> Str("ok"),
     isDateValid |-> Bool(TRUE), isAmountValid |-> Bool(TRUE),
     isVendorValid |-> Bool(TRUE), isSuspicious |-> Bool(FALSE),
     suspiciousReasons |-> Arr(<< >>), imageFileName |-> Undefined,
     userId |-> Undefined, createdAt |-> Undefined, updatedAt |-> Undefined]

\* Records that differ in vendor, category and amount only.
FieldwiseInvoices ==
    {Obj([ValidInvoice EXCEPT !.vendor = v, !.category = c, !.amount = a]) :
        v \in {Str("Acme"), Str("")},
        c \in {Str("gider"), Str("other")},
        a \in {Num(150), Str("150")}}

SaveRecords ==
    FieldwiseInvoices \cup
    {Null,
     Obj([ValidInvoice EXCEPT !.userId = Str("mallory"),
                              !.createdAt = Timestamp(0),
                              !.updatedAt = Timestamp(5)]),
     Obj([ValidInvoice EXCEPT
            !.items = Arr(<< Obj([description |-> Num(3), quantity |-> Num(1),
                                  unitPrice |-> Undefined,
                                  totalPrice |-> Num(7)]) >>),
            !.category = Undefined,
            !.isSuspicious = Null,
            !.suspiciousReasons = Arr(<< Str("old"), Num(1) >>),
            !.imageFileName = Null])}

ActingUserIds == {Null, Str(""), Str("alice"), Str("bob")}

StoreRejections == {<< >>, << "Missing or insufficient permissions." >>}

NextSave ==
    \/ Len(saves) < MaxSaves /\
          \E invoiceData \in SaveRecords, userId \in ActingUserIds :
             SaveInvoice(invoiceData, userId)
    \/ \E i \in 1..Len(saves) : AddDocResolves(i)
    \/ \E i \in 1..Len(saves), message \in StoreRejections :
          AddDocRejects(i, message)

SpecSave == Init /\ [][NextSave]_vars

\* A few values of the form field.
ServerPhotoDataUris == {Null, Val(<< "h", "i" >>), Val(DataImagePrefix)}

\* The pipeline on answers of the extraction prompt that differ in their
\* line items and in their numbers.
PromptItems ==
    {[description |-> d, quantity |-> Undefined, unitPrice |-> Undefined,
      totalPrice |-> t] :
        d \in {Undefined, Val(<< >>), Val(<< "Milk" >>)},
        t \in {Undefined, Null, Val(0), Val(7)}} \cup
    {[description |-> Val(<< "Milk" >>), quantity |-> q, unitPrice |-> u,
      totalPrice |-> Val(7)] :
        q \in {Undefined, Null, Val(0), Val(2)},
        u \in {Undefined, Null, Val(3)}} \cup
    {[description |-> Undefined, quantity |-> Val(2), unitPrice |-> Undefined,
      totalPrice |-> Val(0)],
     [description |-> Undefined, quantity |-> Null, unitPrice |-> Val(3),
      totalPrice |-> Undefined]}

\* The lists of at most n items.
RECURSIVE ItemLists(_)
ItemLists(n) ==
    IF n = 0 THEN {<< >>}
    ELSE LET shorter == ItemLists(n - 1)
         IN  shorter \cup {Append(list, item) : list \in shorter, item \in PromptItems}

NormalizerOutputs ==
    {Null} \cup
    {Val([date |-> Val(Iso(2024, 6, 1)), amount |-> Val(150),
          vendor |-> Val(<< "A", "c", "m", "e" >>), invoiceNumber |-> Undefined,
          taxAmount |-> Undefined, items |-> i]) :
        i \in {Undefined, Null} \cup {Val(list) : list \in ItemLists(MaxItems)}} \cup
    {Val([date |-> Val(Iso(2024, 6, 1)), amount |-> a, vendor |-> v,
          invoiceNumber |-> Undefined, taxAmount |-> t, items |-> Undefined]) :
        a \in {Undefined, Null, Val(0), Val(150)},
        t \in {Undefined, Null, Val(0), Val(18)},
        v \in {Undefined, Val(<< "A", "c", "m", "e" >>)}}

NextNormalize ==
    \/ pc = "idle" /\ \E uri \in ServerPhotoDataUris : ProcessInvoiceUpload(uri)
    \/ pc = "extracting" /\
          \E output \in NormalizerOutputs, clock \in FewClocks, skew \in Skews :
             ExtractionPromptReturns(output, clock, skew)
    \/ pc = "extracting" /\
          \E message \in ThrownMessages : ExtractionPromptThrows(message)
    \/ pc = "validating" /\
          \E output \in FewVerdictOutputs : ValidationPromptReturns(output)
    \/ pc = "validating" /\
          \E message \in ThrownMessages : ValidationPromptThrows(message)

SpecNormalize == Init /\ [][NextNormalize]_vars

\* The two server actions side by side, each on a few inputs.
ServerExtractionOutputs ==
    ExtractionOutputsOf({Val(Iso(2024, 6, 1))}, {Null, Val(150)},
                        {Val(<< >>), Val(<< "A", "c", "m", "e" >>)}, NoItems)

ServerVerdictOutputs ==
    FewVerdictOutputs \cup
    {Val([validationResult |->
              Val([isDateValid |-> Null, isAmountValid |-> Val(TRUE),
                   isVendorValid |-> Val(TRUE), suspicious |-> Val(FALSE),
                   reasons |-> Val(<< >>)]),
          summary |-> Undefined])}

ServerSaveRecords ==
    {Null, Obj(ValidInvoice), Obj([ValidInvoice EXCEPT !.vendor = Str("")])}

ServerUserIds == {Str(""), Str("alice")}

NextServer ==
    \/ pc = "idle" /\ \E uri \in ServerPhotoDataUris : ProcessInvoiceUpload(uri)
    \/ pc = "extracting" /\
          \E output \in ServerExtractionOutputs, clock \in FewClocks, skew \in Skews :
             ExtractionPromptReturns(output, clock, skew)
    \/ pc = "extracting" /\
          \E message \in ThrownMessages : ExtractionPromptThrows(message)
    \/ pc = "validating" /\
          \E output \in ServerVerdictOutputs : ValidationPromptReturns(output)
    \/ pc = "validating" /\
          \E message \in ThrownMessages : ValidationPromptThrows(message)
    \/ Len(saves) < MaxSaves /\
          \E invoiceData \in ServerSaveRecords, userId \in ServerUserIds :
             SaveInvoice(invoiceData, userId)
    \/ \E i \in 1..Len(saves) : AddDocResolves(i)
    \/ \E i \in 1..Len(saves), message \in StoreRejections :
          AddDocRejects(i, message)

SpecServer == Init /\ [][NextServer]_vars

\* Direct requests to the invoices collection by nobody, by two users
\* without a profile and by the administrator.
Callers == {Null} \cup {AuthOf(uid) : uid \in Uids}

NewInvoices ==
    {[userId |-> u, createdAt |-> ServerTimestamp, amount |-> Num(150)] :
        u \in {Undefined, Str("alice"), Str("bob")}}

\* The fields an update names, with their new values.
ChangedInvoices ==
    {[amount |-> Num(200)], [userId |-> Str("bob")], [createdAt |-> Timestamp(0)]}

ListFilters == {Undefined, Val("alice")}

NextInvoiceRules ==
    \/ autoIds < MaxDocuments /\
          \E auth \in Callers, data \in NewInvoices : InvoiceCreate(auth, data)
    \/ \E auth \in Callers, n \in 1..Len(invoices) : InvoiceGet(auth, n)
    \/ \E auth \in Callers, filter \in ListFilters : InvoiceList(auth, filter)
    \/ \E auth \in Callers, n \in 1..Len(invoices), patch \in ChangedInvoices :
          InvoiceUpdate(auth, n, patch)
    \/ \E auth \in Callers, n \in 1..Len(invoices) : InvoiceDelete(auth, n)

SpecInvoiceRules == Init /\ [][NextInvoiceRules]_vars

\* Direct requests to the users collection.
Subjects == {"alice", "bob"}

NewProfiles ==
    {NewProfile(uid, role, Timestamp(0)) :
        uid \in Subjects, role \in {"user", "admin"}} \cup
    {NewProfile("alice", "user", Undefined)}

\* The fields an update names, with their new values.
ChangedProfiles ==
    {[role |-> Str("admin")], [displayName |-> Str("Al")],
     [createdAt |-> Timestamp(1)]}

NextUserRules ==
    \/ \E auth \in Callers, userId \in Subjects, data \in NewProfiles :
          UserCreate(auth, userId, data)
    \/ \E auth \in Callers, userId \in Uids : UserRead(auth, userId)
    \/ \E auth \in Callers, userId \in Uids, patch \in ChangedProfiles :
          UserUpdate(auth, userId, patch)
    \/ \E auth \in Callers, userId \in Uids : UserDelete(auth, userId)

SpecUserRules == Init /\ [][NextUserRules]_vars

\* The calls that write a profile at sign-up and at each change of the
\* signed-in user, while the clock advances and the administrator gives
\* users the role admin.
ProfileUsers == {Null, AuthOf("alice")}

Promotions == {[role |-> Str("admin")]}

NextProfiles ==
    \/ Len(profileCalls) < MaxProfileCalls /\
          \E user \in ProfileUsers : EnsureUserProfile(user)
    \/ \E i \in 1..Len(profileCalls) : GetDocResolves(i)
    \/ \E i \in 1..Len(profileCalls) : GetDocRejects(i)
    \/ SignupSetDoc("alice")
    \/ \E i \in 1..Len(profileCalls) : SetDocDecided(i)
    \/ ClockAdvances
    \/ \E patch \in Promotions : UserUpdate(AuthOf("root"), "alice", patch)

SpecProfiles == Init /\ [][NextProfiles]_vars

\* AuthProvider while users sign in and out and its reads of the store are
\* answered in any order.
AuthUsers == {Null, AuthOf("alice"), AuthOf("bob")}

NextAuth ==
    \/ AuthEffect
    \/ authState.listening /\
          \E user \in AuthUsers : AuthStateChanged(user)
    \/ \E k \in 1..Len(authCallbacks) : EnsureReturned(k)
    \/ \E k \in 1..Len(authCallbacks) : ProfileFetched(k)
    \/ \E k \in 1..Len(authCallbacks) : ProfileFetchFails(k)
    \/ \E i \in 1..Len(profileCalls) : GetDocResolves(i)
    \/ \E i \in 1..Len(profileCalls) : GetDocRejects(i)
    \/ \E i \in 1..Len(profileCalls) : SetDocDecided(i)

SpecAuth == Init /\ [][NextAuth]_vars

\* One upload, reviewed in the form and saved, while a user signs in and
\* out.
ReviewItems ==
    {Val(<< [description |-> Val(<< "Milk" >>), quantity |-> Val(2),
             unitPrice |-> Val(3), totalPrice |-> Val(6)] >>)}

ReviewExtractionOutputs ==
    ExtractionOutputsOf({Val(Iso(2024, 6, 1))}, {Val(0)},
                        {Val(<< "A", "c", "m", "e" >>)}, ReviewItems)

FormChanges ==
    {[name |-> "vendor", type |-> "text", value |-> ""],
     [name |-> "date", type |-> "date", value |-> "2021-01-01"],
     [name |-> "amount", type |-> "number", value |-> NumberInput(150)],
     [name |-> "invoiceNumber", type |-> "text", value |-> "INV-1"],
     [name |-> "taxAmount", type |-> "number", value |-> EmptyInput]}

UnitPriceInputs == {NumberInput(5)}

ImageFileNames == {Str("scan.png")}

ReviewUsers == {AuthOf("alice")}

ReviewRejections == {<< "Missing or insufficient permissions." >>}

NextReview ==
    \/ pc = "idle" /\ \E uri \in ServerPhotoDataUris : ProcessInvoiceUpload(uri)
    \/ pc = "extracting" /\
          \E output \in ReviewExtractionOutputs, clock \in FewClocks, skew \in Skews :
             ExtractionPromptReturns(output, clock, skew)
    \/ pc = "extracting" /\
          \E message \in ThrownMessages : ExtractionPromptThrows(message)
    \/ pc = "validating" /\
          \E output \in FewVerdictOutputs : ValidationPromptReturns(output)
    \/ pc = "validating" /\
          \E message \in ThrownMessages : ValidationPromptThrows(message)
    \/ AuthEffect
    \/ authState.listening /\
          \E user \in ReviewUsers : AuthStateChanged(user)
    \/ form = Undefined /\
          \E imageFileName \in ImageFileNames : OpenForm(imageFileName)
    \/ Editable /\ \E change \in FormChanges :
          HandleChange(change.name, change.type, change.value)
    \/ Editable /\ \E value \in {"gider"} : HandleCategoryChange(value)
    \/ Editable /\ \E index \in {1}, value \in UnitPriceInputs :
          ItemPriceChange(index, value)
    \/ HandleSubmit
    \/ \E i \in 1..Len(saves) : AddDocResolves(i)
    \/ \E i \in 1..Len(saves), message \in ReviewRejections :
          AddDocRejects(i, message)
    \/ \E i \in 1..Len(saves) : SaveReturns(i)

SpecReview == Init /\ [][NextReview]_vars

\* --------------------------------------------------------------- claims

\* s contains the fragment f.
Mentions(s, f) == \E i \in 1..Len(s) : s[i] = f

\* The log holds the event e.
Logged(e) == \E i \in 1..Len(log) : log[i] = e

IsCoreFieldName(f) == f \in {"Date", "Amount", "Vendor"}

\* The core fields an extraction result lacks, in the order date, amount,
\* vendor.
Lacking(data) ==
    (IF data.date.tag = "val" THEN << >> ELSE << "Date" >>)
    \o (IF data.amount.tag = "val" THEN << >> ELSE << "Amount" >>)
    \o (IF data.vendor.tag = "val" THEN << >> ELSE << "Vendor" >>)

\* C1: a photoDataUri that is a string not starting with "data:image/" ends
\* the run with extractedData = null, validationResult = null and an error
\* that mentions the image data URI constraint, and no AI call was made.
C1_NonImageRejectedBeforeAnyAiCall ==
    (/\ pc # "idle"
     /\ photoDataUri.tag = "val"
     /\ \/ Len(photoDataUri.v) < Len(DataImagePrefix)
        \/ SubSeq(photoDataUri.v, 1, Len(DataImagePrefix)) # DataImagePrefix)
    => /\ pc = "done"
       /\ result.returned
       /\ result.extractedData = Null
       /\ result.validationResult = Null
       /\ result.error.tag = "val"
       /\ Mentions(result.error.v, InvalidImageMessage)
       /\ log = << >>
       /\ inFlight = {}

C1_Witness ==
    /\ pc = "done"
    /\ photoDataUri = Val(<< "d", "a", "t", "a", ":", "t", "e", "x", "t", "/" >>)
    /\ result.returned
    /\ result.error = Val(<< InvalidImageMessage >>)

\* C2: when the extraction call's result lacks any of date, amount, vendor,
\* the run returns that partial result (not null), validationResult = null
\* and an error whose core field names are exactly the lacking fields, in
\* the order Date, Amount, Vendor, each written in full; no validation call.
C2_MissingFieldsNamedExactly ==
    (/\ pc = "done"
     /\ extractedData.tag = "val"
     /\ Lacking(extractedData.v) # << >>)
    => /\ result.returned
       /\ result.extractedData = extractedData
       /\ result.extractedData # Null
       /\ result.validationResult = Null
       /\ result.error.tag = "val"
       /\ SelectSeq(result.error.v, IsCoreFieldName) = Lacking(extractedData.v)
       /\ \A i \in 1..Len(result.error.v) : result.error.v[i] # "Vend"
       /\ ~Logged("validate.call")

C2_Witness ==
    /\ pc = "done"
    /\ extractedData.tag = "val"
    /\ extractedData.v.date = Val(Iso(2024, 6, 1))
    /\ extractedData.v.amount = Undefined
    /\ extractedData.v.vendor = Val(<< "A", "c", "m", "e" >>)
    /\ result.returned
    /\ result.extractedData # Null
    /\ Mentions(result.error.v, "Amount")
    /\ ~Mentions(result.error.v, "Date")
    /\ ~Mentions(result.error.v, "Vendor")

\* C3: when the extraction prompt gives no result at all, the run returns
\* extractedData = null, validationResult = null and the fixed "extraction
\* failed completely" error, and no validation call is made.
C3_NoResultFailsCompletely ==
    (pc = "done" /\ extractionOutput = Null)
    => /\ result.returned
       /\ result.extractedData = Null
       /\ result.validationResult = Null
       /\ result.error = Val(ExtractionFailedError)
       /\ ~Logged("validate.call")

\* C4: the validation call is made at most once, only right after the
\* extraction call has returned and only for an extraction result with date,
\* amount and vendor all present; the two calls are never in flight
\* together; when both return, the result has extractedData and
\* validationResult not null and no error.
C4_ValidationFollowsCompleteExtraction ==
    /\ Cardinality(inFlight) <= 1
    /\ Cardinality({i \in 1..Len(log) : log[i] = "validate.call"}) <= 1
    /\ \A i \in 1..Len(log) :
          log[i] = "validate.call" =>
             /\ i = 3
             /\ log[1] = "extract.call"
             /\ log[2] = "extract.return"
             /\ extractedData.tag = "val"
             /\ Lacking(extractedData.v) = << >>
    /\ (pc = "validating") = (inFlight = {"validation"})
    /\ (pc = "extracting") = (inFlight = {"extraction"})
    /\ (Logged("extract.return") /\ Logged("validate.return"))
          => /\ result.returned
             /\ result.extractedData # Null
             /\ result.extractedData = extractedData
             /\ result.validationResult # Null
             /\ result.error = Undefined

C4_Witness ==
    /\ pc = "done"
    /\ log = << "extract.call", "extract.return", "validate.call", "validate.return" >>
    /\ result.returned
    /\ result.validationResult.tag = "val"
    /\ result.error = Undefined

\* C5: when the extraction call or the validation call throws, the run does
\* not raise: it returns extractedData = null and validationResult = null
\* (also when extraction had succeeded) with the failure's message as the
\* error, or the fixed fallback string when the message is empty.
C5_FailuresAreReturned ==
    /\ pc = "done" => result.returned
    /\ (Logged("extract.throw") \/ Logged("validate.throw"))
          => /\ pc = "done"
             /\ result.returned
             /\ result.extractedData = Null
             /\ result.validationResult = Null
             /\ result.error.tag = "val"
             /\ result.error.v # << >>
    /\ \A out \in {extractionOutput, validationOutput} :
          out.tag = "thrown"
             => /\ result.returned
                /\ result.error =
                      Val(IF out.message = << >>
                          THEN << "An unexpected error occurred during AI processing." >>
                          ELSE out.message)

C5_Witness ==
    /\ pc = "done"
    /\ extractedData.tag = "val"
    /\ validationOutput = Thrown(<< >>)
    /\ result.returned
    /\ result.extractedData = Null
    /\ result.error = Val(FallbackError)

\* The field f of the verdict the validation prompt gave, undefined when it
\* gave no verdict object.
AiField(f) ==
    IF HasValidationResult(validationOutput)
    THEN validationOutput.v.validationResult.v[f]
    ELSE Undefined

\* C6: the merge is per field: each of isDateValid, isAmountValid,
\* isVendorValid, suspicious, reasons and summary is the AI's value when that
\* is present (not null or undefined; for reasons also not empty) and the
\* deterministic value otherwise.
C6_MergePrefersPresentAiFields ==
    final.set =>
        LET rules == flow.rules
            own == [isDateValid |-> rules.isDateValid,
                    isAmountValid |-> rules.isAmountValid,
                    isVendorValid |-> rules.isVendorValid,
                    suspicious |-> ~(rules.isDateValid /\ rules.isAmountValid
                                     /\ rules.isVendorValid)]
            merged == final.validationResult
        IN  /\ \A f \in {"isDateValid", "isAmountValid", "isVendorValid", "suspicious"} :
                  merged[f] = IF AiField(f).tag = "val" THEN AiField(f) ELSE Val(own[f])
            /\ merged.reasons =
                  IF AiField("reasons").tag = "val" /\ AiField("reasons").v # << >>
                  THEN AiField("reasons").v
                  ELSE Reasons(rules)
            /\ (validationOutput.tag = "val" /\ validationOutput.v.summary.tag = "val"
                /\ validationOutput.v.summary.v # << >>)
                  => final.summary = validationOutput.v.summary.v

\* C7: in every verdict validateExtractedData returns, suspicious = true
\* implies a non-empty reasons list.
C7_SuspiciousHasReasons ==
    (result.returned /\ result.validationResult.tag = "val")
    => (result.validationResult.v.validationResult.suspicious
           => result.validationResult.v.validationResult.reasons # << >>)

\* C8: the deterministic validator sets isAmountValid exactly when
\* 0 < amount < 1,000,000.
C8_AmountValidIffInOpenRange ==
    flow.active =>
        (flow.rules.isAmountValid
            <=> (0 < flow.input.amount /\ flow.input.amount < 1000000))

C8_Witness ==
    /\ flow.active
    /\ flow.input.amount = 1000000
    /\ ~flow.rules.isAmountValid
    /\ pc = "done"
    /\ result.returned
    /\ result.validationResult.tag = "val"
    /\ ~result.validationResult.v.validationResult.isAmountValid

\* The text names a day of the calendar.
IsCalendarDay(text) ==
    /\ text.iso
    /\ text.m \in 1..12
    /\ text.d \in 1..DaysInMonth(text.y, text.m)

\* C9: the deterministic validator sets isDateValid exactly when the date is
\* a day from today - 2 years to today, both days included, whatever the
\* time of day; a text that is no date is invalid.
C9_DateValidIffInInclusiveWindow ==
    flow.active =>
        LET text == flow.input.date
            today == flow.currentDate
        IN  flow.rules.isDateValid
               <=> /\ IsCalendarDay(text)
                   /\ DayNumber(today.y - 2, today.m, today.d)
                         <= DayNumber(text.y, text.m, text.d)
                   /\ DayNumber(text.y, text.m, text.d)
                         <= DayNumber(today.y, today.m, today.d)

\* The characters of s without the leading and trailing blanks.
RECURSIVE Trim(_)
Trim(s) ==
    IF s = << >> THEN s
    ELSE IF Head(s) = " " THEN Trim(Tail(s))
    ELSE IF s[Len(s)] = " " THEN Trim(SubSeq(s, 1, Len(s) - 1))
    ELSE s

\* C10: the deterministic validator sets isVendorValid exactly when the
\* vendor, trimmed of leading and trailing whitespace, is longer than 2.
C10_VendorValidIffTrimmedLongerThanTwo ==
    flow.active =>
        (flow.rules.isVendorValid <=> Len(Trim(flow.input.vendor)) > 2)

\* The validation flow ended on its own rules alone: the prompt gave no
\* validationResult.
DeterministicVerdict ==
    /\ final.set
    /\ ~HasValidationResult(validationOutput)

\* The fixed wording of each rule, in the order date, amount, vendor, next to
\* the merged verdict's value for the rule.
RuleWordings(verdict) ==
    << [passes |-> verdict.isDateValid, wording |-> DateReason],
       [passes |-> verdict.isAmountValid, wording |-> AmountReason],
       [passes |-> verdict.isVendorValid, wording |-> VendorReason] >>

FailingWordings(verdict) ==
    LET failing == SelectSeq(RuleWordings(verdict),
                             LAMBDA e : e.passes = Val(FALSE))
    IN  [i \in 1..Len(failing) |-> failing[i].wording]

\* C11: in the deterministic verdict (the prompt supplied no value),
\* suspicious is true exactly when at least one of isDateValid, isAmountValid
\* and isVendorValid is false, and the reasons are one entry per failing rule,
\* in the order date, amount, vendor, each in the rule's fixed wording; they
\* are empty when the three rules pass.
C11_DeterministicVerdictFollowsRules ==
    DeterministicVerdict =>
        LET verdict == final.validationResult
        IN  /\ verdict.isDateValid = Val(flow.rules.isDateValid)
            /\ verdict.isAmountValid = Val(flow.rules.isAmountValid)
            /\ verdict.isVendorValid = Val(flow.rules.isVendorValid)
            /\ verdict.suspicious =
                   Val(\E f \in {"isDateValid", "isAmountValid", "isVendorValid"} :
                          verdict[f] = Val(FALSE))
            /\ verdict.reasons = FailingWordings(verdict)
            /\ (~verdict.suspicious.v) <=> (verdict.reasons = << >>)

\* A deterministic verdict with a stale date and a short vendor next to a
\* valid amount: two reasons, the date's first.
C11_Witness ==
    /\ DeterministicVerdict
    /\ result.returned
    /\ result.validationResult.tag = "val"
    /\ ~flow.rules.isDateValid
    /\ flow.rules.isAmountValid
    /\ ~flow.rules.isVendorValid
    /\ result.validationResult.v.validationResult.suspicious
    /\ result.validationResult.v.validationResult.reasons =
           << DateReason, VendorReason >>

\* The prompt supplied no summary: none at all, or the empty text.
NoAiSummary ==
    \/ validationOutput.tag \in {"null", "undefined"}
    \/ /\ validationOutput.tag = "val"
       /\ ~TruthyStr(validationOutput.v.summary)

\* processInvoiceUpload returned a validation result.
ReturnedValidation ==
    /\ result.returned
    /\ result.validationResult.tag = "val"

\* C12: when the prompt supplies no summary, the returned summary is
\* determined by the returned, merged verdict: the fixed prefix ending in
\* "Reasons: " followed by the returned reasons joined by ", " when suspicious
\* is true, the fixed "appears to be valid" sentence otherwise.
C12_SummaryFollowsReturnedVerdict ==
    (ReturnedValidation /\ NoAiSummary) =>
        LET returned == result.validationResult.v
            verdict == returned.validationResult
        IN  returned.summary =
                IF verdict.suspicious
                THEN << "The extracted data is suspicious. Reasons: " >>
                     \o Join(verdict.reasons, ", ")
                ELSE << "The extracted data appears to be valid." >>

\* The prompt supplied a suspicious verdict with a reason of its own and no
\* summary: the summary lists the prompt's reason.
C12_Witness ==
    /\ ReturnedValidation
    /\ NoAiSummary
    /\ HasValidationResult(validationOutput)
    /\ result.validationResult.v.validationResult.suspicious
    /\ result.validationResult.v.validationResult.reasons = << "AI reason" >>
    /\ Reasons(flow.rules) # << "AI reason" >>
    /\ result.validationResult.v.summary =
           << "The extracted data is suspicious. Reasons: ", "AI reason" >>

\* The calls of saveInvoice made so far.
SaveCalls == 1..Len(saves)

\* The call i has returned the failure `error`.
SaveFailedWith(i, error) ==
    /\ saves[i].status = "returned"
    /\ saves[i].result.success = FALSE
    /\ saves[i].result.error = Val(error)

\* The call i never called addDoc: no document can be its doing.
IssuedNoWrite(i) ==
    /\ saves[i].addDocCalls = 0
    /\ saves[i].write = Undefined

\* The identity handed to the call i is empty: "", null or undefined.
EmptyIdentity(i) == saves[i].call.userId \in {Str(""), Null, Undefined}

\* The record of the call i breaks the save-time schema.
BreaksSchema(i) == SaveInvoiceSchema(saves[i].call.invoiceData) # << >>

\* C13: saveInvoice called with an empty actingUserId returns success = false
\* with the missing-identity error and creates no record; called with a
\* non-empty identity while the store handle is unavailable it returns
\* success = false with the store-unavailable error and creates no record;
\* the two errors differ from each other and from every schema-failure error.
C13_IdentityAndStorePreconditions ==
    /\ MissingUserIdError # DbUnavailableError
    /\ \A i \in SaveCalls :
          /\ EmptyIdentity(i) =>
                /\ SaveFailedWith(i, MissingUserIdError)
                /\ IssuedNoWrite(i)
          /\ (~EmptyIdentity(i) /\ db = Undefined) =>
                /\ SaveFailedWith(i, DbUnavailableError)
                /\ IssuedNoWrite(i)
          /\ (~EmptyIdentity(i) /\ db # Undefined /\ BreaksSchema(i)) =>
                /\ saves[i].result.success = FALSE
                /\ saves[i].result.error \notin
                      {Val(MissingUserIdError), Val(DbUnavailableError)}
    /\ (db = Undefined \/ \A i \in SaveCalls : EmptyIdentity(i)) =>
          invoices = << >>

\* With the store handle unavailable, a call without an identity and a call
\* with one have returned their two errors and the collection is empty.
C13_Witness ==
    /\ db = Undefined
    /\ Len(saves) = 2
    /\ saves[1].call.userId = Str("")
    /\ SaveFailedWith(1, MissingUserIdError)
    /\ saves[2].call.userId = Str("alice")
    /\ SaveFailedWith(2, DbUnavailableError)
    /\ invoices = << >>

\* s holds the fragments of part, one after another.
Contains(s, part) ==
    \E j \in 0..(Len(s) - Len(part)) : SubSeq(s, j + 1, j + Len(part)) = part

\* The fields of a record that break the save-time contract: the vendor is a
\* non-empty string, the category one of the two values, the verdict's
\* fields of their types, numbers are numbers.
ContractViolations(d) ==
    {f \in {"date", "validationSummary"} : ParsedType(d[f]) # "string"}
    \cup {f \in {"amount"} : ParsedType(d[f]) # "number"}
    \cup {f \in {"vendor"} : ParsedType(d[f]) # "string" \/ d[f] = Str("")}
    \cup {f \in {"category"} : d[f] \notin {Str("gelir"), Str("gider")}}
    \cup {f \in {"isDateValid", "isAmountValid", "isVendorValid", "isSuspicious"} :
            ParsedType(d[f]) # "boolean"}
    \cup {f \in {"invoiceNumber"} : ParsedType(d[f]) \notin {"undefined", "null", "string"}}
    \cup {f \in {"taxAmount"} : ParsedType(d[f]) \notin {"undefined", "null", "number"}}
    \cup {f \in {"items"} : ParsedType(d[f]) \notin {"undefined", "null", "array"}}
    \cup {f \in {"suspiciousReasons"} : ParsedType(d[f]) # "array"}
    \cup {f \in {"imageFileName"} : ParsedType(d[f]) \notin {"undefined", "string"}}

\* The call i got past the identity and the store handle.
ReachedSchema(i) == ~EmptyIdentity(i) /\ db # Undefined

\* C14: when the record handed to saveInvoice breaks the save-time schema in
\* several fields at once, saveInvoice returns success = false with an error
\* that holds, for every field in violation, the field's path and its
\* message, and no record is created.
C14_EveryViolationReported ==
    \A i \in SaveCalls :
        (ReachedSchema(i) /\ BreaksSchema(i)) =>
            LET record == saves[i].call.invoiceData
                issues == SaveInvoiceSchema(record)
                error == saves[i].result.error
            IN  /\ saves[i].status = "returned"
                /\ saves[i].result.success = FALSE
                /\ error.tag = "val"
                /\ \A n \in 1..Len(issues) :
                      Contains(error.v, Join(issues[n].path, ".") \o << ": " >>
                                        \o issues[n].message)
                /\ record.tag = "val" =>
                      \A f \in ContractViolations(record.v.fields) :
                         \E n \in 1..Len(issues) :
                            /\ issues[n].path = << f >>
                            /\ Contains(error.v, << f, ": " >> \o issues[n].message)
                /\ IssuedNoWrite(i)

\* A record with an empty vendor and a category outside the two values: the
\* error names both, and nothing was written.
C14_Witness ==
    /\ Len(saves) = 1
    /\ ReachedSchema(1)
    /\ saves[1].call.invoiceData.tag = "val"
    /\ ContractViolations(saves[1].call.invoiceData.v.fields) =
           {"vendor", "category"}
    /\ SaveFailedWith(1,
           << "vendor", ": ", "Vendor name is required", ", ",
              "category", ": ", "Invalid enum value. Expected ",
              "'gelir' | 'gider'", ", received '", "other", "'" >>)
    /\ invoices = << >>

\* The documents of the collection, by position.
Documents == 1..Len(invoices)

\* The document n was written by the call i.
WrittenBy(n, i) ==
    /\ saves[i].write.tag = "val"
    /\ saves[i].write.v.id = invoices[n].id

\* C15: every record created by a successful saveInvoice(record, actingUserId)
\* has userId equal to actingUserId, also when the input record carries a
\* userId of its own; its createdAt and updatedAt are set by the store at the
\* commit, never taken from the input record, and equal to each other.
C15_OwnerAndTimestampsForced ==
    \A n \in Documents :
        \E i \in SaveCalls :
            /\ WrittenBy(n, i)
            /\ saves[i].status = "returned"
            /\ saves[i].result = SaveSuccess(invoices[n].id)
            /\ invoices[n].data.userId = saves[i].call.userId
            /\ invoices[n].data.createdAt = Timestamp(invoices[n].createTime)
            /\ invoices[n].data.updatedAt = invoices[n].data.createdAt

\* alice saved a record that names mallory as its owner and carries two
\* timestamps of its own: the document is alice's and has the commit's time.
C15_Witness ==
    /\ Len(invoices) = 1
    /\ Len(saves) = 1
    /\ saves[1].call.userId = Str("alice")
    /\ saves[1].call.invoiceData.v.fields.userId = Str("mallory")
    /\ saves[1].call.invoiceData.v.fields.createdAt = Timestamp(0)
    /\ saves[1].call.invoiceData.v.fields.updatedAt = Timestamp(5)
    /\ invoices[1].data.userId = Str("alice")
    /\ invoices[1].data.createdAt = Timestamp(1)
    /\ invoices[1].data.updatedAt = Timestamp(1)
    /\ invoices[1].data.vendor = Str("Acme")

\* The calls that returned success = true.
SuccessfulSaves ==
    {i \in SaveCalls : saves[i].status = "returned" /\ saves[i].result.success}

\* The calls that returned success = false.
FailedSaves ==
    {i \in SaveCalls : saves[i].status = "returned" /\ ~saves[i].result.success}

\* C16: after any sequence and interleaving of saveInvoice calls the
\* collection holds as many records as calls returned success = true; a call
\* that returned success = false created none; and every successful call has
\* a record of its own under its own identifier, two calls with the same
\* data included.
C16_OneRecordPerSuccessfulCall ==
    /\ Len(invoices) = Cardinality(SuccessfulSaves)
    /\ \A i \in FailedSaves : ~\E n \in Documents : WrittenBy(n, i)
    /\ \A i \in SuccessfulSaves :
          \E n \in Documents :
             /\ WrittenBy(n, i)
             /\ saves[i].result.invoiceId = Val(invoices[n].id)
    /\ \A n, k \in Documents : invoices[n].id = invoices[k].id => n = k

\* Two calls with the same record by the same user both succeeded: two
\* documents with the same data under two identifiers.
C16_Witness ==
    /\ Len(saves) = 2
    /\ saves[1].call = saves[2].call
    /\ SuccessfulSaves = {1, 2}
    /\ Len(invoices) = 2
    /\ invoices[1].id # invoices[2].id
    /\ \A k \in DOMAIN invoices[1].data \ {"createdAt", "updatedAt"} :
          invoices[1].data[k] = invoices[2].data[k]

\* The calls of saveInvoice that are over.
EndedSaves == {i \in SaveCalls : saves[i].status = "returned"}

\* C17: processInvoiceUpload and saveInvoice never raise: every outcome is a
\* structured result.  A saveInvoice result with success = false has a
\* non-empty error and no invoiceId, one with success = true an invoiceId and
\* no error.  A processInvoiceUpload result without an error has extractedData
\* and validationResult both non-null.  A write the store rejected is
\* reported with the rejection's message, after one call of addDoc.
C17_StructuredResults ==
    /\ pc = "done" =>
          /\ result.returned
          /\ result.error = Undefined =>
                /\ result.extractedData.tag = "val"
                /\ result.validationResult.tag = "val"
          /\ result.error # Undefined =>
                /\ result.error.tag = "val"
                /\ result.error.v # << >>
    /\ \A i \in EndedSaves :
          LET r == saves[i].result
          IN  /\ DOMAIN r = {"success", "invoiceId", "error"}
              /\ r.success =>
                    /\ r.invoiceId.tag = "val"
                    /\ r.error = Undefined
              /\ ~r.success =>
                    /\ r.error.tag = "val"
                    /\ r.error.v # << >>
                    /\ r.invoiceId = Undefined
              /\ saves[i].addDoc.tag = "thrown" =>
                    /\ ~r.success
                    /\ saves[i].addDoc.message # << >> =>
                          r.error = Val(saves[i].addDoc.message)
                    /\ saves[i].addDocCalls = 1
                    /\ ~\E n \in Documents : WrittenBy(n, i)

\* An upload returned without an error, one save was rejected by the store
\* with a message and another succeeded.
C17_Witness ==
    /\ pc = "done"
    /\ result.returned
    /\ result.error = Undefined
    /\ result.validationResult.tag = "val"
    /\ Len(saves) = 2
    /\ saves[1].addDoc = Thrown(<< "Missing or insufficient permissions." >>)
    /\ saves[1].result =
          SaveFailure(<< "Missing or insufficient permissions." >>)
    /\ saves[2].status = "returned"
    /\ saves[2].result.success
    /\ Len(invoices) = 1

\* C18: the save path never persists a record under an empty or null
\* identity: after any sequence of saveInvoice calls every stored record has
\* a non-empty userId, and it is the identifier the caller of the call that
\* wrote it passed as the parameter, whichever calls began or ended since.
C18_StoredUnderCallersIdentity ==
    \A n \in Documents :
        /\ invoices[n].data.userId.tag = "val"
        /\ invoices[n].data.userId.v.type = "string"
        /\ invoices[n].data.userId.v.s # ""
        /\ \A i \in SaveCalls :
              WrittenBy(n, i) => invoices[n].data.userId = saves[i].call.userId

\* alice's call was awaiting the store when bob's call began; bob's write was
\* committed first: each document is under its own caller's identity.
C18_Witness ==
    /\ Len(saves) = 2
    /\ saves[1].call.userId = Str("alice")
    /\ saves[2].call.userId = Str("bob")
    /\ Len(invoices) = 2
    /\ WrittenBy(1, 2)
    /\ WrittenBy(2, 1)
    /\ invoices[1].data.userId = Str("bob")
    /\ invoices[2].data.userId = Str("alice")

\* The extraction prompt answered with a list of line items.
AnsweredWithItems ==
    /\ extractionOutput.tag = "val"
    /\ extractionOutput.v.items.tag = "val"

\* The item has a description or a totalPrice, a totalPrice of 0 included.
HasDescriptionOrTotalPrice(item) ==
    \/ item.description.tag = "val" /\ item.description.v # << >>
    \/ item.totalPrice.tag = "val"

\* C19: the normalizer drops a line item if and only if it lacks both a
\* description and a totalPrice; an item with a totalPrice (a present 0
\* included) or a non-empty description is kept, and the kept items keep
\* their relative order.
C19_ItemDroppedIffNoDescriptionNoTotalPrice ==
    AnsweredWithItems =>
        LET kept == SelectSeq(extractionOutput.v.items.v, HasDescriptionOrTotalPrice)
            items == extractedData.v.items
        IN  /\ Len(items) = Len(kept)
            /\ \A k \in 1..Len(kept) :
                  /\ items[k].description =
                        (IF kept[k].description.tag = "val" /\ kept[k].description.v # << >>
                         THEN kept[k].description ELSE Undefined)
                  /\ items[k].totalPrice =
                        (IF kept[k].totalPrice.tag = "val"
                         THEN kept[k].totalPrice ELSE Undefined)

\* The number as the prompt gave it, undefined for null and undefined.
PresentNumber(field) == IF field.tag = "val" THEN field ELSE Undefined

\* C20: the normalizer tells a present zero from absence: an amount or a
\* taxAmount of 0 in the prompt's answer comes out as 0, null and undefined
\* come out as absent; and processInvoiceUpload takes an extracted amount of 0
\* as present: it does not report Amount as missing and goes on to the
\* validation when the date and the vendor are there too.
C20_ZeroIsPresent ==
    extractionOutput.tag = "val" =>
        LET data == extractedData.v
        IN  /\ data.amount = PresentNumber(extractionOutput.v.amount)
            /\ data.taxAmount = PresentNumber(extractionOutput.v.taxAmount)
            /\ extractionOutput.v.amount.tag = "val" =>
                  /\ result.returned /\ result.error.tag = "val" =>
                        ~Mentions(result.error.v, "Amount")
                  /\ (TruthyDate(extractionOutput.v.date)
                      /\ TruthyStr(extractionOutput.v.vendor)) =>
                        Logged("validate.call")
            /\ extractionOutput.v.amount.tag # "val" =>
                  /\ ~Logged("validate.call")
                  /\ Mentions(result.error.v, "Amount")

\* The prompt gave an amount of 0 and a taxAmount of 0: both came out as 0
\* and the validation was called.
C20_Witness ==
    /\ pc = "validating"
    /\ extractionOutput.tag = "val"
    /\ extractionOutput.v.amount = Val(0)
    /\ extractionOutput.v.taxAmount = Val(0)
    /\ extractedData.v.amount = Val(0)
    /\ extractedData.v.taxAmount = Val(0)
    /\ flow.active
    /\ flow.input.amount = 0
    /\ ~result.returned

\* The items of the prompt's answer that pass the flow's filter, in order.
SurvivingItems ==
    SelectSeq(extractionOutput.v.items.v,
              LAMBDA item : \/ TruthyStr(item.description)
                            \/ TruthyNum(item.totalPrice))

\* C21: every line item of the normalizer's output has a quantity: 1 when the
\* prompt's quantity was absent or null, the prompt's value otherwise (a
\* present 0 stays 0); its unitPrice and totalPrice are absent when the
\* prompt did not supply them.
C21_QuantityDefaultsToOne ==
    AnsweredWithItems =>
        LET items == extractedData.v.items
        IN  /\ Len(items) = Len(SurvivingItems)
            /\ \A k \in 1..Len(items) :
                  LET given == SurvivingItems[k]
                  IN  /\ items[k].quantity.tag = "val"
                      /\ items[k].quantity =
                            (IF given.quantity \in {Undefined, Null}
                             THEN Val(1) ELSE given.quantity)
                      /\ given.unitPrice \in {Undefined, Null} =>
                            items[k].unitPrice = Undefined
                      /\ given.totalPrice \in {Undefined, Null} =>
                            items[k].totalPrice = Undefined
                      /\ given.unitPrice.tag = "val" =>
                            items[k].unitPrice = given.unitPrice
                      /\ given.totalPrice.tag = "val" =>
                            items[k].totalPrice = given.totalPrice

\* One item came with quantity 0 and a null unitPrice, the next without a
\* quantity: the first keeps 0 and has no unitPrice, the second gets 1.
C21_Witness ==
    /\ AnsweredWithItems
    /\ Len(extractionOutput.v.items.v) = 2
    /\ extractionOutput.v.items.v[1].quantity = Val(0)
    /\ extractionOutput.v.items.v[1].unitPrice = Null
    /\ extractionOutput.v.items.v[2].quantity = Undefined
    /\ extractionOutput.v.items.v[2].totalPrice = Val(7)
    /\ Len(extractedData.v.items) = 2
    /\ extractedData.v.items[1].quantity = Val(0)
    /\ extractedData.v.items[1].unitPrice = Undefined
    /\ extractedData.v.items[2].quantity = Val(1)

\* The flow's return value read as an answer of the prompt: the same fields,
\* the item list being an array that is there.
AsPromptOutput(data) == Val([data EXCEPT !.items = Val(data.items)])

\* C22: normalization is idempotent: the normalizer's field and item rules
\* applied to a value that is already the normalizer's output give an
\* identical value, with the same fields present and the same item list.
C22_NormalizationIdempotent ==
    extractedData.tag = "val" =>
        ExtractInvoiceDataFlow(AsPromptOutput(extractedData.v)) = extractedData

\* The normalizer changed the prompt's answer (it dropped an item and gave
\* another its quantity), and normalizing its output again changes nothing.
C22_Witness ==
    /\ AnsweredWithItems
    /\ Len(extractionOutput.v.items.v) = 2
    /\ Len(extractedData.v.items) = 1
    /\ extractionOutput.v.items.v[2].quantity = Null
    /\ extractedData.v.items[1].quantity = Val(1)
    /\ extractedData.v.items[1].unitPrice = Val(3)
    /\ ExtractInvoiceDataFlow(AsPromptOutput(extractedData.v)) = extractedData

\* The latest request was one to the collection, and it was allowed.
AllowedOn(collection) ==
    /\ lastRequest.made
    /\ lastRequest.collection = collection
    /\ lastRequest.allowed

\* The users profile of the uid has the role admin.
HasAdminProfile(uid) ==
    /\ users[uid] # Undefined
    /\ users[uid].v.role = Str("admin")

\* C23: under the access rules a create on the invoices collection is
\* allowed only when the caller is authenticated and the record's userId is
\* the caller's uid; a get, list, update or delete of an invoice is allowed
\* only to the authenticated caller whose uid is the stored record's userId
\* or whose users profile has the role admin.  No unauthenticated request is
\* allowed.
C23_InvoiceRules ==
    /\ (lastRequest.made /\ lastRequest.auth = Null) => ~lastRequest.allowed
    /\ AllowedOn("invoices") =>
          LET uid == lastRequest.auth.v.uid
          IN  /\ lastRequest.op = "create" =>
                    lastRequest.data.v.userId = Str(uid)
              /\ lastRequest.op \in {"get", "update", "delete"} =>
                    \/ lastRequest.resource.v.userId = Str(uid)
                    \/ HasAdminProfile(uid)
              /\ lastRequest.op = "list" =>
                    \/ lastRequest.key = Val(uid)
                    \/ HasAdminProfile(uid)

\* The administrator was allowed to delete an invoice of alice's.
C23_Witness ==
    /\ AllowedOn("invoices")
    /\ lastRequest.op = "delete"
    /\ lastRequest.auth = AuthOf("root")
    /\ lastRequest.resource.v.userId = Str("alice")
    /\ invoices = << >>
    /\ autoIds = 1

\* The record of the creation of the invoice with the identifier id.
OriginOf(collection, key) ==
    CHOOSE o \in origin : o.collection = collection /\ o.key = key

\* C24: after any sequence of store operations permitted to callers that
\* are not administrators, every invoice's owning user is still the uid of
\* the user who created it and its createdAt is still the value assigned at
\* its creation.
C24_OwnerAndCreatedAtImmutable ==
    \A n \in 1..Len(invoices) :
        << "invoices", invoices[n].id >> \notin adminWrites =>
            LET o == OriginOf("invoices", invoices[n].id)
            IN  /\ invoices[n].data.userId = Str(o.creator)
                /\ invoices[n].data.createdAt = o.data.createdAt

\* The role a profile had when it entered the store: by its creation, or
\* with the store for the administrator's.
FirstRole(uid) ==
    IF \E o \in origin : o.collection = "users" /\ o.key = uid
    THEN OriginOf("users", uid).data.role
    ELSE Str("admin")

\* C25: a users profile can be created only by its own subject and only
\* with the role user; no request of a caller who is not an administrator
\* changes a profile's role, so that after any sequence of their requests
\* every profile has the role it first had, and none of them has obtained
\* the role admin on any profile.
C25_RoleOnlyChangedByAdmin ==
    /\ (AllowedOn("users") /\ lastRequest.op = "create") =>
          /\ lastRequest.key = Val(lastRequest.auth.v.uid)
          /\ lastRequest.data.v.role = Str("user")
    /\ (AllowedOn("users") /\ lastRequest.op = "update" /\ ~lastRequest.admin) =>
          lastRequest.data.v.role = lastRequest.resource.v.role
    /\ (AllowedOn("users") /\ ~lastRequest.admin) => lastRequest.op # "delete"
    /\ \A uid \in Uids :
          (users[uid] # Undefined /\ << "users", uid >> \notin adminWrites) =>
              /\ users[uid].v.role = FirstRole(uid)
              /\ uid # "root" => users[uid].v.role = Str("user")

\* alice, whose role is user, was allowed to change the display name of her
\* profile, after having been refused the role admin.
C25_Witness ==
    /\ AllowedOn("users")
    /\ lastRequest.op = "update"
    /\ lastRequest.auth = AuthOf("alice")
    /\ users["alice"].v.displayName = Str("Al")
    /\ users["alice"].v.role = Str("user")
    /\ << "users", "alice" >> \notin adminWrites

\* The calls of ensureUserProfile.
EnsureCalls == {i \in 1..Len(profileCalls) : profileCalls[i].kind = "ensure"}

\* C26: ensureUserProfile sends a profile to the store only if its read
\* found none, and then one with the role user; and whatever calls overlap,
\* a profile that was in the store when a call's write arrived keeps its
\* role and its createdAt (an admin role is never overwritten).
C26_ExistingProfileKept ==
    \A i \in EnsureCalls :
        LET call == profileCalls[i]
        IN  /\ call.data # Undefined =>
                  /\ call.snap = Undefined
                  /\ call.data.v.role = Str("user")
            /\ (call.before # Pending /\ call.before # Undefined) =>
                  /\ call.after.v.role = call.before.v.role
                  /\ call.after.v.createdAt = call.before.v.createdAt

\* C27: saveInvoice checks its preconditions in a fixed order, the missing
\* identity before the unavailable store before the schema failure, so that
\* a malformed record handed over with an empty actingUserId gets the
\* missing-identity error; and it calls the store's write only after all
\* three have passed, hence only for a record that passed the schema.
C27_PreconditionsInOrder ==
    \A i \in SaveCalls :
        /\ (EmptyIdentity(i) /\ BreaksSchema(i)) =>
              SaveFailedWith(i, MissingUserIdError)
        /\ (~EmptyIdentity(i) /\ db = Undefined /\ BreaksSchema(i)) =>
              SaveFailedWith(i, DbUnavailableError)
        /\ ~IssuedNoWrite(i) =>
              /\ ~EmptyIdentity(i)
              /\ db # Undefined
              /\ ~BreaksSchema(i)
              /\ saves[i].addDocCalls = 1

\* With the store at hand, a malformed record without an identity was
\* refused for the identity, and a well-formed record of alice was written.
C27_Witness ==
    /\ db # Undefined
    /\ Len(saves) = 2
    /\ EmptyIdentity(1) /\ BreaksSchema(1)
    /\ SaveFailedWith(1, MissingUserIdError)
    /\ saves[2].call.userId = Str("alice")
    /\ ~IssuedNoWrite(2)
    /\ saves[2].status = "returned"
    /\ saves[2].result.success
    /\ Len(invoices) = 1

\* No run of the callback is waiting for the store.
NoFetchPending ==
    \A k \in 1..Len(authCallbacks) : authCallbacks[k].status = "done"

\* C29: after any sequence of changes of the signed-in user, once no fetch
\* of a profile is pending, authLoading and roleLoading are false; with no
\* current user the profile and the role are null; and a profile and a
\* current user that are both there have the same uid.
C29_SettledAuthStateConsistent ==
    (Len(authCallbacks) > 0 /\ NoFetchPending) =>
        /\ ~authState.authLoading
        /\ ~authState.roleLoading
        /\ authState.currentUser = Null =>
              /\ authState.userProfile = Null
              /\ authState.userRole = Null
        /\ (authState.currentUser # Null /\ authState.userProfile # Null) =>
              authState.userProfile.v.uid = Str(authState.currentUser.v.uid)

\* The saves begun by the review form.
FormSaves == IF form = Undefined THEN {} ELSE form.v.issued

\* C28: the review form awaits at most one saveInvoice call at a time, a
\* submit while one is awaited beginning no second; and it never calls
\* saveInvoice without a current user or without a category selected.
C28_OneSaveInFlight ==
    /\ form # Undefined => Cardinality(form.v.awaited) <= 1
    /\ \A i \in FormSaves :
          /\ ~EmptyIdentity(i)
          /\ saves[i].call.invoiceData.v.fields.category # Str("")
          /\ \A j \in FormSaves :
                (j < i) => \/ j \notin form.v.awaited
                           \/ i \notin form.v.awaited

\* The form's first save has failed and has been answered, and its second
\* is awaited.
C28_Witness ==
    /\ form # Undefined
    /\ form.v.issued = {1, 2}
    /\ form.v.awaited = {2}
    /\ form.v.loading
    /\ ~saves[1].result.success

\* The six fields of the verdict in a record, as the values they are.
VerdictOf(fields) ==
    [validationSummary |-> fields.validationSummary,
     isDateValid |-> fields.isDateValid,
     isAmountValid |-> fields.isAmountValid,
     isVendorValid |-> fields.isVendorValid,
     isSuspicious |-> fields.isSuspicious,
     suspiciousReasons |-> fields.suspiciousReasons]

\* The verdict that processInvoiceUpload returned, in the same form.
ReturnedVerdict ==
    LET validation == result.validationResult.v
    IN  [validationSummary |-> Str(validation.summary),
         isDateValid |-> Bool(validation.validationResult.isDateValid),
         isAmountValid |-> Bool(validation.validationResult.isAmountValid),
         isVendorValid |-> Bool(validation.validationResult.isVendorValid),
         isSuspicious |-> Bool(validation.validationResult.suspicious),
         suspiciousReasons |->
            Arr([k \in 1..Len(validation.validationResult.reasons) |->
                    Str(validation.validationResult.reasons[k])])]

\* C30: the verdict fields that the review form hands to saveInvoice, and
\* those of the record stored for it, are the ones processInvoiceUpload
\* returned, whatever the user edited in the form (date, amount, vendor,
\* invoice number, tax amount, item prices, category); and those the form
\* holds are the same at any time.
C30_VerdictNotRecomputed ==
    /\ form # Undefined =>
          VerdictOf(form.v.formData) = ReturnedVerdict
    /\ \A i \in FormSaves :
          /\ VerdictOf(saves[i].call.invoiceData.v.fields) = ReturnedVerdict
          /\ \A n \in Documents :
                WrittenBy(n, i) => VerdictOf(invoices[n].data) = ReturnedVerdict

\* The upload found the amount of 0 invalid and the invoice suspicious; the
\* user set the amount to 150 and selected a category, and the record was
\* stored with the verdict of the upload.
C30_Witness ==
    /\ form # Undefined
    /\ form.v.edits >= 2
    /\ Len(invoices) = 1
    /\ 1 \in form.v.issued
    /\ WrittenBy(1, 1)
    /\ invoices[1].data.amount = Num(150)
    /\ invoices[1].data.isSuspicious = Bool(TRUE)
    /\ invoices[1].data.isAmountValid = Bool(FALSE)
    /\ invoices[1].data.suspiciousReasons # Arr(<< >>)

====
